---- MODULE Spec2Model ----
(***************************************************************************)
(* Model of backstage-plugin-aws-backend: the cross-account credentials    *)
(* provider (AwsCredentialsProvider), the per-operation client factories   *)
(* of the resource providers (getClient) and their paginated listings.     *)
(*                                                                         *)
(* Time is in milliseconds, as Date.now().                                 *)
(***************************************************************************)
EXTENDS Integers, Sequences, FiniteSets, TLC

VARIABLES
    accounts,          \* AwsCredentialsProvider.accounts : Map<string, AwsAccount>, in insertion order
    credentialsCache,  \* AwsCredentialsProvider.credentialsCache : Map<string, {credentials, expiresAt}>
    now,               \* Date.now()
    stsCalls,          \* number of AssumeRole exchanges sent to the security-token service
    calls,             \* one record per caller: the operation in progress and its outcome
    pages,             \* the vendor's pages of the listing being read
    lst,               \* the paginated listing in progress
    vendor,            \* the vendor's side of a get-by-id or a detail listing: what each request is answered
    jobs,              \* one record per request in flight: the operation of its handler and its HTTP answer
    det                \* the detail listing in progress: its batches and the items held

vars == <<accounts, credentialsCache, now, stsCalls, calls, pages, lst, vendor, jobs, det>>

(***************************************************************************)
(* Bounds                                                                  *)
(***************************************************************************)
MaxNow == 5310000
MaxSts == 3
MaxSends == 2
MaxPages == 3
MaxPageSize == 2
MaxTotal == 5
MaxCeiling == 3

Procs == {"p1", "p2"}
Sequential == {"p1"}         \* the caller of the one-request-at-a-time specification
Slots == {"r1", "r2"}        \* the requests the router may hold at a time
OneSlot == {"r1"}            \* the request of the one-request-at-a-time specifications
TickSteps == {1770000, 3540000}

(***************************************************************************)
(* Values                                                                  *)
(***************************************************************************)
NoDate == -1                 \* an undefined Date / undefined optional field
NoString == "undefined"      \* an undefined optional string
NoMaxResults == -1000        \* maxResults not supplied (undefined); no ceiling of the model
NaN == -1001                 \* parseInt of a query that holds no number; no ceiling of the model

SafetyMarginMs == 60000
FallbackLifetimeMs == 3600000
DurationSeconds == 3600

AccountNames == {"prod", "dev", "ghost"}

\* The aws.accounts configuration arrays the provider may be constructed from.
Configs ==
    { << >>,
      << [name |-> "prod", accountId |-> "111", region |-> "eu-west-1",
          roleArn |-> "arn:role/prod", externalId |-> "ext-prod"],
         [name |-> "dev", accountId |-> "222", region |-> "us-east-1",
          roleArn |-> "arn:role/dev", externalId |-> NoString] >>,
      << [name |-> "prod", accountId |-> "111", region |-> "eu-west-1",
          roleArn |-> "arn:role/prod", externalId |-> "ext-prod"],
         [name |-> "dev", accountId |-> "222", region |-> "us-east-1",
          roleArn |-> "arn:role/dev", externalId |-> NoString],
         [name |-> "prod", accountId |-> "333", region |-> "eu-west-3",
          roleArn |-> "arn:role/prod2", externalId |-> NoString] >> }

(***************************************************************************)
(* Map<string, AwsAccount>: a sequence of entries with distinct names, in  *)
(* insertion order; set() of an existing key replaces the value in place.  *)
(***************************************************************************)
MapHas(m, k) == \E i \in 1..Len(m) : m[i].name = k

MapGet(m, k) == m[CHOOSE i \in 1..Len(m) : m[i].name = k]

MapSet(m, k, v) ==
    IF MapHas(m, k)
    THEN [i \in 1..Len(m) |-> IF m[i].name = k THEN v ELSE m[i]]
    ELSE Append(m, v)

RECURSIVE loadAccounts(_, _)
loadAccounts(m, accountsConfig) ==
    IF accountsConfig = << >> THEN m
    ELSE loadAccounts(MapSet(m, Head(accountsConfig).name, Head(accountsConfig)),
                      Tail(accountsConfig))

getAccounts == accounts

hasAccount(name) == MapHas(accounts, name)

getAccount(name) == MapGet(accounts, name)

(***************************************************************************)
(* Leases                                                                  *)
(***************************************************************************)
NoCredentials == [accessKeyId |-> 0, expiration |-> NoDate]
NoLease == [credentials |-> NoCredentials, expiresAt |-> NoDate]
NoRequest == [RoleArn |-> NoString, RoleSessionName |-> <<NoString, NoDate>>,
              DurationSeconds |-> 0, ExternalId |-> NoString, region |-> NoString]

\* `backstage-aws-plugin-${Date.now()}`
RoleSessionName(t) == <<"backstage-aws-plugin-", t>>

\* The AssumeRole parameters built for an account at time t.
assumeRoleParams(account, t) ==
    [RoleArn |-> account.roleArn,
     RoleSessionName |-> RoleSessionName(t),
     DurationSeconds |-> DurationSeconds,
     ExternalId |-> account.externalId,
     region |-> account.region]

\* Variants of the freshness test: the margin confused with the lifetime, and
\* a lease expiring exactly at the margin taken as fresh.
CacheFreshWrongMargin(cache, accountName, t) ==
    /\ accountName \in DOMAIN cache
    /\ cache[accountName].expiresAt > t + FallbackLifetimeMs

CacheFreshInclusive(cache, accountName, t) ==
    /\ accountName \in DOMAIN cache
    /\ cache[accountName].expiresAt >= t + SafetyMarginMs

\* cached && cached.expiresAt > Date.now() + 60000
CacheFresh(cache, accountName, t) ==
    /\ accountName \in DOMAIN cache
    /\ cache[accountName].expiresAt > t + SafetyMarginMs

\* Variant: an existing entry is updated field by field and keeps its
\* expiresAt.
CacheSetKeepsExpiry(cache, accountName, entry) ==
    [k \in (DOMAIN cache) \cup {accountName} |->
        IF k # accountName THEN cache[k]
        ELSE IF accountName \in DOMAIN cache
             THEN [cache[accountName] EXCEPT !.credentials = entry.credentials]
             ELSE entry]

\* this.credentialsCache.set(accountName, entry)
CacheSet(cache, accountName, entry) ==
    [k \in (DOMAIN cache) \cup {accountName} |->
        IF k = accountName THEN entry ELSE cache[k]]

\* The replies the security-token service may give to an AssumeRole sent at
\* any time and answered at time t: an error, a response without
\* Credentials, or Credentials with or without an Expiration.
StsReplies(t) ==
    { [kind |-> "throws", expiration |-> NoDate],
      [kind |-> "empty", expiration |-> NoDate],
      [kind |-> "credentials", expiration |-> NoDate],
      [kind |-> "credentials", expiration |-> t + 3600000],
      [kind |-> "credentials", expiration |-> t + 30000] }

\* response.Credentials.Expiration?.getTime() ?? Date.now() + 3600000
ExpiresAtOf(reply, t) ==
    IF reply.expiration # NoDate THEN reply.expiration ELSE t + FallbackLifetimeMs

\* The lease built from a reply that carries Credentials; key is the
\* AccessKeyId the service issued for this exchange.
LeaseOf(reply, key, t) ==
    [credentials |-> [accessKeyId |-> key, expiration |-> reply.expiration],
     expiresAt |-> ExpiresAtOf(reply, t)]

(***************************************************************************)
(* Callers                                                                 *)
(***************************************************************************)
IdleCall ==
    [op |-> "none", pc |-> "idle", account |-> NoString, hit |-> FALSE,
     exchanges |-> 0, sends |-> 0, request |-> NoRequest, key |-> 0,
     result |-> NoLease, memo |-> NoCredentials, reply |-> NoString,
     error |-> NoString]

\* A call that has settled: its locals (the request it built, the key of its
\* exchange, the client's credentials) are gone, its outcome remains.
Settled(c) == [c EXCEPT !.request = NoRequest, !.key = 0, !.memo = NoCredentials]

IdleListing ==
    [op |-> "none", pc |-> "idle", account |-> NoString, cursor |-> NoString,
     acc |-> << >>, fetches |-> 0, sent |-> << >>, pageSize |-> 0,
     maxResults |-> NoMaxResults, result |-> << >>, error |-> NoString]

\* No vendor world, no get-by-id and no detail listing.
NoVendor == [service |-> "none"]
NoTags == [present |-> FALSE, map |-> << >>]
NoEntity == [name |-> NoString, tags |-> NoTags]
IdleJob ==
    [op |-> "none", pc |-> "idle", account |-> NoString, name |-> NoString,
     decrypt |-> FALSE, outcome |-> "none", entity |-> NoEntity,
     list |-> << >>, sent |-> << >>, error |-> NoString, status |-> 0]
IdleDetail ==
    [op |-> "none", pc |-> "idle", account |-> NoString, names |-> << >>,
     i |-> 0, batch |-> << >>, running |-> {}, order |-> << >>,
     batches |-> << >>, tables |-> << >>, result |-> << >>,
     error |-> NoString]

Busy(p) == calls[p].pc \in {"sts", "client"}

(***************************************************************************)
(* AwsCredentialsProvider.getCredentials, up to the await of               *)
(* stsClient.send: the account lookup, the cache check and the request.    *)
(***************************************************************************)
GetCredentials(p, accountName) ==
    /\ ~Busy(p)
    /\ IF ~hasAccount(accountName)
       THEN /\ calls' = [calls EXCEPT ![p] =
                  [IdleCall EXCEPT !.op = "getCredentials", !.pc = "failed",
                                   !.account = accountName,
                                   !.error = "UnknownAccount"]]
            /\ UNCHANGED stsCalls
       ELSE IF CacheFresh(credentialsCache, accountName, now)
       THEN /\ calls' = [calls EXCEPT ![p] =
                  [IdleCall EXCEPT !.op = "getCredentials", !.pc = "returned",
                                   !.account = accountName, !.hit = TRUE,
                                   !.result = credentialsCache[accountName]]]
            /\ UNCHANGED stsCalls
       ELSE /\ stsCalls < MaxSts
            /\ stsCalls' = stsCalls + 1
            /\ calls' = [calls EXCEPT ![p] =
                  [IdleCall EXCEPT !.op = "getCredentials", !.pc = "sts",
                                   !.account = accountName, !.exchanges = 1,
                                   !.key = stsCalls + 1,
                                   !.request = assumeRoleParams(getAccount(accountName), now)]]
    /\ UNCHANGED <<accounts, credentialsCache, now, pages, lst, vendor, jobs, det>>

(***************************************************************************)
(* AwsCredentialsProvider.getCredentials, after the await: the reply of    *)
(* the security-token service is checked, cached and returned.             *)
(***************************************************************************)
\* Variant: a failed exchange clears the cache.
CacheAfterReplyClears(cache, accountName, reply, key, t) ==
    IF reply.kind = "credentials"
    THEN CacheSet(cache, accountName, LeaseOf(reply, key, t))
    ELSE << >>

\* Variant: a failed exchange evicts the account's entry.
CacheAfterReplyEvicts(cache, accountName, reply, key, t) ==
    IF reply.kind = "credentials"
    THEN CacheSet(cache, accountName, LeaseOf(reply, key, t))
    ELSE [k \in (DOMAIN cache) \ {accountName} |-> cache[k]]

CacheAfterReply(cache, accountName, reply, key, t) ==
    IF reply.kind = "credentials"
    THEN CacheSet(cache, accountName, LeaseOf(reply, key, t))
    ELSE cache

StsReply(p, reply) ==
    /\ calls[p].op = "getCredentials"
    /\ calls[p].pc = "sts"
    /\ credentialsCache' =
          CacheAfterReply(credentialsCache, calls[p].account, reply, calls[p].key, now)
    /\ IF reply.kind = "throws"
       THEN calls' = [calls EXCEPT ![p] =
                [Settled(calls[p]) EXCEPT !.pc = "failed", !.reply = reply.kind,
                                          !.error = "StsError"]]
       ELSE IF reply.kind = "empty"
       THEN calls' = [calls EXCEPT ![p] =
                [Settled(calls[p]) EXCEPT !.pc = "failed", !.reply = reply.kind,
                                          !.error = "AssumeRoleFailed"]]
       ELSE calls' = [calls EXCEPT ![p] =
                [Settled(calls[p]) EXCEPT !.pc = "returned", !.reply = reply.kind,
                                          !.result = LeaseOf(reply, calls[p].key, now)]]
    /\ UNCHANGED <<accounts, now, stsCalls, pages, lst, vendor, jobs, det>>

(***************************************************************************)
(* AwsCredentialsProvider.getCredentialsProvider: the account lookup and   *)
(* the supplier returned by fromTemporaryCredentials(params).  The         *)
(* supplier holds the AssumeRole parameters; it does not read or write     *)
(* credentialsCache and does not call getCredentials.                      *)
(***************************************************************************)
\* Variant: the supplier is built without the registry check.
getCredentialsProviderNoLookup(accountName, t) ==
    [error |-> NoString,
     params |-> IF hasAccount(accountName)
                THEN assumeRoleParams(getAccount(accountName), t)
                ELSE NoRequest]

getCredentialsProvider(accountName, t) ==
    IF ~hasAccount(accountName)
    THEN [error |-> "UnknownAccount", params |-> NoRequest]
    ELSE [error |-> NoString, params |-> assumeRoleParams(getAccount(accountName), t)]

GetCredentialsProvider(p, accountName) ==
    /\ ~Busy(p)
    /\ LET supplier == getCredentialsProvider(accountName, now) IN
       calls' = [calls EXCEPT ![p] =
           [IdleCall EXCEPT !.op = "getCredentialsProvider",
                            !.pc = IF supplier.error # NoString THEN "failed" ELSE "returned",
                            !.account = accountName,
                            !.error = supplier.error,
                            !.request = supplier.params]]
    /\ UNCHANGED <<accounts, credentialsCache, now, stsCalls, pages, lst, vendor, jobs, det>>

(***************************************************************************)
(* getClient of a resource provider (LambdaProvider, S3Provider,           *)
(* EcsProvider, ...): the account lookup, then a vendor client bound to    *)
(* the account's region and to getCredentialsProvider(accountName).        *)
(***************************************************************************)
getClient(accountName, t) ==
    IF ~hasAccount(accountName)
    THEN [error |-> "UnknownAccount", region |-> NoString, credentials |-> NoRequest]
    ELSE [error |-> getCredentialsProvider(accountName, t).error,
          region |-> getAccount(accountName).region,
          credentials |-> getCredentialsProvider(accountName, t).params]

GetClient(p, accountName) ==
    /\ ~Busy(p)
    /\ LET client == getClient(accountName, now) IN
       calls' = [calls EXCEPT ![p] =
           [IdleCall EXCEPT !.op = "providerOp",
                            !.pc = IF client.error # NoString THEN "failed" ELSE "client",
                            !.account = accountName,
                            !.error = client.error,
                            !.request = client.credentials]]
    /\ UNCHANGED <<accounts, credentialsCache, now, stsCalls, pages, lst, vendor, jobs, det>>

(***************************************************************************)
(* client.send(command) of a provider operation.  The client asks its      *)
(* credentials supplier when it holds no credentials, and may ask it again *)
(* when it holds some (the SDK renews them near expiry); every call of the *)
(* supplier is one AssumeRole exchange.  The vendor request follows; the   *)
(* operation returns after its last request.                               *)
(***************************************************************************)
SupplierInvoked(memo, renew) == memo = NoCredentials \/ renew

ClientSend(p, renew, reply, last) ==
    /\ calls[p].op = "providerOp"
    /\ calls[p].pc = "client"
    /\ calls[p].sends < MaxSends
    /\ IF SupplierInvoked(calls[p].memo, renew)
       THEN /\ stsCalls < MaxSts
            /\ stsCalls' = stsCalls + 1
            /\ IF reply.kind # "credentials"
               THEN calls' = [calls EXCEPT ![p] =
                        [Settled(calls[p]) EXCEPT !.pc = "failed",
                                                  !.exchanges = @ + 1,
                                                  !.error = "CredentialsError"]]
               ELSE IF last
               THEN calls' = [calls EXCEPT ![p] =
                        [Settled(calls[p]) EXCEPT !.pc = "returned",
                                                  !.exchanges = @ + 1,
                                                  !.sends = @ + 1]]
               ELSE calls' = [calls EXCEPT ![p].exchanges = @ + 1,
                                           ![p].sends = @ + 1,
                                           ![p].memo = LeaseOf(reply, stsCalls + 1, now).credentials]
       ELSE /\ reply.kind = "credentials"
            /\ reply.expiration = NoDate
            /\ IF last
               THEN calls' = [calls EXCEPT ![p] =
                        [Settled(calls[p]) EXCEPT !.pc = "returned", !.sends = @ + 1]]
               ELSE calls' = [calls EXCEPT ![p].sends = @ + 1]
            /\ UNCHANGED stsCalls
    /\ UNCHANGED <<accounts, credentialsCache, now, pages, lst, vendor, jobs, det>>

(***************************************************************************)
(* The clock                                                               *)
(***************************************************************************)
Tick(d) ==
    /\ now + d <= MaxNow
    /\ now' = now + d
    /\ UNCHANGED <<accounts, credentialsCache, stsCalls, calls, pages, lst, vendor, jobs, det>>

(***************************************************************************)
(* Specification of the credentials provider                               *)
(***************************************************************************)
Init ==
    /\ \E config \in Configs : accounts = loadAccounts(<< >>, config)
    /\ credentialsCache = << >>
    /\ now = 0
    /\ stsCalls = 0
    /\ calls = [p \in Procs |-> IdleCall]
    /\ pages = << >>
    /\ lst = IdleListing
    /\ vendor = NoVendor
    /\ jobs = [q \in Slots |-> IdleJob]
    /\ det = IdleDetail

Next ==
    \/ \E d \in TickSteps : Tick(d)
    \/ \E p \in Sequential, a \in AccountNames : GetCredentials(p, a)
    \/ \E p \in Sequential : \E reply \in StsReplies(now) : StsReply(p, reply)
    \/ \E p \in Sequential, a \in AccountNames : GetCredentialsProvider(p, a)
    \/ \E p \in Sequential, a \in AccountNames : GetClient(p, a)
    \/ \E p \in Sequential, renew \in BOOLEAN, last \in BOOLEAN :
          \E reply \in StsReplies(now) : ClientSend(p, renew, reply, last)

Spec == Init /\ [][Next]_vars

(***************************************************************************)
(* Paginated listings.  The vendor holds a linear chain of pages; every    *)
(* page but the last carries the token of the next one, the last carries   *)
(* an absent (undefined) or an empty cursor.                               *)
(***************************************************************************)
Tokens == <<"tok1", "tok2", "tok3", "tok4", "tok5", "tok6", "tok7", "tok8">>
EndCursors == {NoString, ""}
DatePatterns == {"none", "rising", "falling", "mixed", "ties"}
PlainKinds ==
    {"listFunctions", "listInstances", "listTables", "listSecrets",
     "getParametersByPath", "listClusters", "listRestApis"}
ListKinds == PlainKinds \cup {"listImages"}
DefaultPageSize == 100
\* The values the route passes to listImages: undefined without a query,
\* else parseInt(query, 10): an integer of either sign, or NaN.
Ceilings == {NoMaxResults, NaN} \cup ((-MaxCeiling)..MaxCeiling)
RepositoryName == "repo"

\* JavaScript truthiness of a string-or-undefined and of a number-or-undefined.
TruthyString(c) == c # NoString /\ c # ""
TruthyNumber(n) == n \notin {NoMaxResults, NaN, 0}

RECURSIVE SumTo(_, _)
SumTo(sizes, k) == IF k = 0 THEN 0 ELSE sizes[k] + SumTo(sizes, k - 1)

\* The push date of the id-th image of the vendor under a date pattern.
DateOf(pattern, id, total) ==
    CASE pattern = "none" -> NoDate
      [] pattern = "rising" -> id
      [] pattern = "falling" -> total + 1 - id
      [] pattern = "mixed" -> IF id % 2 = 1 THEN 2 ELSE NoDate
      [] OTHER -> (id + 1) \div 2

\* The vendor's pages for the page sizes, the closing cursor and the dates.
VendorPages(sizes, end, pattern) ==
    [i \in 1..Len(sizes) |->
        [items |-> [j \in 1..sizes[i] |->
                      [id |-> SumTo(sizes, i - 1) + j,
                       pushedAt |-> DateOf(pattern, SumTo(sizes, i - 1) + j,
                                           SumTo(sizes, Len(sizes)))]],
         next |-> IF i < Len(sizes) THEN Tokens[i + 1] ELSE end]]

PageShapes ==
    UNION { {sizes \in [1..n -> 0..MaxPageSize] : SumTo(sizes, n) <= MaxTotal}
            : n \in 1..MaxPages }

\* Variant: the vendor ignores the cursor and returns its first page.
FetchPageIgnoresCursor(cursor) == pages[1]

\* The page the vendor returns for a cursor.
FetchPage(cursor) ==
    IF cursor = NoString THEN pages[1]
    ELSE pages[CHOOSE i \in 1..Len(pages) : Tokens[i] = cursor]

\* All items of the vendor's pages 1..k, in page order and item order.
RECURSIVE ItemsUpTo(_)
ItemsUpTo(k) == IF k = 0 THEN << >> ELSE ItemsUpTo(k - 1) \o pages[k].items

(***************************************************************************)
(* The mappers of the listings                                             *)
(***************************************************************************)
mapFunction(fn) == [functionName |-> fn.id, version |-> "$LATEST"]

mapInstance(instance) == [dbInstanceIdentifier |-> instance.id, storageType |-> "gp2"]

mapSecret(secret) == [name |-> secret.id, rotationEnabled |-> FALSE]

\* The parameters of the vendor as getParametersByPath lists them: the
\* id-th parameter has the id-th name, every second one is a SecureString.
ParameterNames == << "/p/1", "/p/2", "/p/3", "/p/4", "/p/5", "/p/6", "/p/7", "/p/8" >>

ListedParameter(item) ==
    [Name |-> ParameterNames[item.id],
     Type |-> IF item.id % 2 = 0 THEN "SecureString" ELSE "String",
     Value |-> "hunter2"]

Mask == "********"

\* Variant: the value is passed on whatever the type.
mapParameterUnmasked(param, withDecryption) ==
    [name |-> IF param.Name = NoString THEN "" ELSE param.Name,
     type |-> IF param.Type = NoString THEN "String" ELSE param.Type,
     value |-> IF param.Value = NoString THEN "" ELSE param.Value,
     version |-> 0]

\* value = param.Value ?? ''; if (isSecureString && !withDecryption) value = '********'
mapParameter(param, withDecryption) ==
    [name |-> IF param.Name = NoString THEN "" ELSE param.Name,
     type |-> IF param.Type = NoString THEN "String" ELSE param.Type,
     value |-> IF param.Type = "SecureString" /\ ~withDecryption THEN Mask
               ELSE IF param.Value = NoString THEN "" ELSE param.Value,
     version |-> 0]

\* { clusterArn: arn, clusterName: arn.split('/').pop() ?? arn }: the vendor's
\* ARN is the prefix "arn:aws:ecs:cluster/" followed by the cluster's name.
mapCluster(arn) == [clusterArn |-> arn, clusterName |-> arn[Len(arn)]]

\* The REST APIs of the vendor as getRestApis lists them: every second one
\* has no name.
ListedRestApi(item) ==
    [id |-> item.id, name |-> IF item.id % 2 = 0 THEN NoString ELSE "orders"]

\* { id: api.id ?? '', name: api.name ?? '', ... }; the vendor's items all
\* have an id.
mapRestApi(api) ==
    [id |-> api.id, name |-> IF api.name = NoString THEN "" ELSE api.name]

mapImage(repositoryName, image) ==
    [repositoryName |-> repositoryName,
     imageDigest |-> image.id,
     imagePushedAt |-> image.pushedAt]

MapItem(kind, item) ==
    CASE kind = "listFunctions" -> mapFunction(item)
      [] kind = "listInstances" -> mapInstance(item)
      [] kind = "listTables" -> item.id
      [] kind = "listSecrets" -> mapSecret(item)
      [] kind = "getParametersByPath" -> mapParameter(ListedParameter(item), FALSE)
      [] kind = "listClusters" -> mapCluster(<< "arn:aws:ecs:cluster", item.id >>)
      [] kind = "listRestApis" -> mapRestApi(ListedRestApi(item))
      [] OTHER -> mapImage(RepositoryName, item)

MapItems(kind, items) == [j \in 1..Len(items) |-> MapItem(kind, items[j])]

\* Variant: the page replaces the accumulator.
AccumulateLastPage(acc, kind, items) == MapItems(kind, items)

\* for (const x of response.Items ?? []) { acc.push(map(x)) }
Accumulate(acc, kind, items) == acc \o MapItems(kind, items)

(***************************************************************************)
(* EcrProvider.listImages: the sort by push date and the cut               *)
(***************************************************************************)
\* a.imagePushedAt?.getTime() ?? 0
TimeOf(date) == IF date = NoDate THEN 0 ELSE date

\* (a, b) => dateB - dateA
ComparePushed(a, b) == TimeOf(b.imagePushedAt) - TimeOf(a.imagePushedAt)

\* x put before the first element it must precede; elements that compare
\* equal keep their order (Array.prototype.sort is stable).
InsertSorted(sorted, x) ==
    LET before == {i \in 1..Len(sorted) : ComparePushed(x, sorted[i]) < 0}
        at == IF before = {} THEN Len(sorted) + 1
              ELSE CHOOSE i \in before : \A j \in before : i <= j
    IN  SubSeq(sorted, 1, at - 1) \o <<x>> \o SubSeq(sorted, at, Len(sorted))

RECURSIVE SortImages(_)
SortImages(images) ==
    IF images = << >> THEN << >>
    ELSE InsertSorted(SortImages(SubSeq(images, 1, Len(images) - 1)),
                      images[Len(images)])

\* images.slice(0, n): a negative n counts from the end.
Slice(images, n) ==
    LET end == IF n < 0 THEN Len(images) + n ELSE n
    IN  SubSeq(images, 1, IF end < 0 THEN 0
                          ELSE IF end < Len(images) THEN end ELSE Len(images))

\* `maxResults && ...`, `maxResults ? ... : ...`
CeilingGiven(maxResults) == TruthyNumber(maxResults)

\* return maxResults ? images.slice(0, maxResults) : images  (after the sort)
ImagesResult(images, maxResults) ==
    IF CeilingGiven(maxResults)
    THEN Slice(SortImages(images), maxResults)
    ELSE SortImages(images)

(***************************************************************************)
(* The listing operations                                                  *)
(***************************************************************************)
\* The listing enters: getClient, the empty accumulator, the absent cursor.
ListStart(kind, accountName, maxResults) ==
    /\ lst.pc # "loop"
    /\ kind \in PlainKinds => maxResults = NoMaxResults
    /\ lst' = IF getClient(accountName, now).error # NoString
              THEN [IdleListing EXCEPT !.op = kind, !.pc = "failed",
                                       !.account = accountName,
                                       !.maxResults = maxResults,
                                       !.error = getClient(accountName, now).error]
              ELSE [IdleListing EXCEPT !.op = kind, !.pc = "loop",
                                       !.account = accountName,
                                       !.maxResults = maxResults]
    /\ UNCHANGED <<accounts, credentialsCache, now, stsCalls, calls, pages, vendor, jobs, det>>

\* `break` of listImages once enough images are held.
Enough(kind, maxResults, count) ==
    kind = "listImages" /\ CeilingGiven(maxResults) /\ count >= maxResults

\* What the operation returns once its loop has ended.
ListResult(kind, acc, maxResults) ==
    IF kind = "listImages" THEN ImagesResult(acc, maxResults) ELSE acc

\* The page size the request carries (listImages only).
RequestPageSize(l) ==
    IF l.op = "listImages"
    THEN (IF l.maxResults # NoMaxResults THEN l.maxResults ELSE DefaultPageSize)
    ELSE 0

\* Variant: the loop catches the vendor's error and returns what it holds.
VendorErrorReturnsPartial(l) ==
    [l EXCEPT !.pc = "returned", !.error = "VendorFailure",
              !.fetches = @ + 1, !.sent = Append(@, l.cursor),
              !.pageSize = RequestPageSize(l),
              !.result = ListResult(l.op, l.acc, l.maxResults)]

\* `await client.send(command)` rejects: no try surrounds the loop, so the
\* error leaves the operation; the accumulator is a local and is lost.
VendorError(l) ==
    [l EXCEPT !.pc = "failed", !.error = "VendorFailure",
              !.fetches = @ + 1, !.sent = Append(@, l.cursor),
              !.pageSize = RequestPageSize(l)]

\* One round of the do-while loop: the request with the current cursor, the
\* vendor's answer (a page or an error), the accumulation, the new cursor,
\* the exit test and, on exit, the sort, the cut and the return.
ListFetch(answer) ==
    /\ lst.pc = "loop"
    /\ IF answer = "error"
       THEN lst' = VendorError(lst)
       ELSE LET page == FetchPage(lst.cursor)
                acc == Accumulate(lst.acc, lst.op, page.items)
                done == Enough(lst.op, lst.maxResults, Len(acc))
                           \/ ~TruthyString(page.next)
            IN  lst' = [lst EXCEPT !.pc = IF done THEN "returned" ELSE "loop",
                                   !.fetches = @ + 1,
                                   !.sent = Append(@, lst.cursor),
                                   !.pageSize = RequestPageSize(lst),
                                   !.acc = acc,
                                   !.cursor = page.next,
                                   !.result = IF done
                                              THEN ListResult(lst.op, acc, lst.maxResults)
                                              ELSE << >>]
    /\ UNCHANGED <<accounts, credentialsCache, now, stsCalls, calls, pages, vendor, jobs, det>>

ListConfig ==
    << [name |-> "prod", accountId |-> "111", region |-> "eu-west-1",
        roleArn |-> "arn:role/prod", externalId |-> "ext-prod"] >>

InitList ==
    /\ accounts = loadAccounts(<< >>, ListConfig)
    /\ credentialsCache = << >>
    /\ now = 0
    /\ stsCalls = 0
    /\ calls = [p \in Procs |-> IdleCall]
    /\ \E sizes \in PageShapes, end \in EndCursors, pattern \in DatePatterns :
          pages = VendorPages(sizes, end, pattern)
    /\ lst = IdleListing
    /\ vendor = NoVendor
    /\ jobs = [q \in Slots |-> IdleJob]
    /\ det = IdleDetail

NextList ==
    \/ \E kind \in ListKinds, a \in {"prod", "ghost"}, m \in Ceilings :
          ListStart(kind, a, m)
    \/ \E answer \in {"page", "error"} : ListFetch(answer)

SpecList == InitList /\ [][NextList]_vars

(***************************************************************************)
(* The vendor's side of a get-by-id: whether the entity exists, how each   *)
(* request about it is answered, and the tags it carries.                  *)
(***************************************************************************)
MaxTags == 2

Services == {"s3", "lambda", "dynamodb", "ecr"}

\* The primary request of an operation and its secondary requests, in the
\* order the code sends them.
Primary(service) ==
    CASE service = "lambda" -> "GetFunction"
      [] service = "dynamodb" -> "DescribeTable"
      [] service = "ecr" -> "DescribeRepositories"
      [] OTHER -> NoString

Secondary(service) ==
    CASE service = "s3" ->
            << "GetBucketLocation", "GetBucketVersioning", "GetBucketEncryption",
               "GetBucketLifecycleConfiguration", "GetPublicAccessBlock",
               "GetBucketPolicyStatus", "GetBucketTagging" >>
      [] service = "dynamodb" ->
            << "DescribeTimeToLive", "DescribeContinuousBackups",
               "ListTagsOfResource" >>
      [] service = "ecr" -> << "ListTagsForResource" >>
      [] OTHER -> << >>

Range(s) == {s[j] : j \in 1..Len(s)}

Commands(service) ==
    Range(Secondary(service)) \cup
       (IF Primary(service) = NoString THEN {} ELSE {Primary(service)})

\* The error a request gets when the feature it asks about is not
\* configured on the entity; NoString for a request that has no such error.
AbsentName(cmd) ==
    CASE cmd = "GetBucketEncryption" -> "ServerSideEncryptionConfigurationNotFoundError"
      [] cmd = "GetBucketLifecycleConfiguration" -> "NoSuchLifecycleConfiguration"
      [] cmd = "GetPublicAccessBlock" -> "NoSuchPublicAccessBlockConfiguration"
      [] cmd = "GetBucketPolicyStatus" -> "NoSuchBucketPolicy"
      [] cmd = "GetBucketTagging" -> "NoSuchTagSet"
      [] OTHER -> NoString

\* The error every request about an entity that does not exist gets.
NotFoundName(service) ==
    CASE service = "s3" -> "NoSuchBucket"
      [] service = "ecr" -> "RepositoryNotFoundException"
      [] OTHER -> "ResourceNotFoundException"

\* How the vendor may answer a request about an existing entity: "ok", the
\* feature-absent error, another error ("denied": a permission denial, a
\* throttle, a transient failure), and, for a primary request, a response
\* that describes nothing ("empty").
ReplyKinds(service, cmd) ==
    {"ok", "denied"}
       \cup (IF AbsentName(cmd) # NoString THEN {"absent"} ELSE {})
       \cup (IF cmd = Primary(service) THEN {"empty"} ELSE {})

\* The tags of an entity as the vendor holds them: entries that may lack a
\* key or a value.
TagEntries ==
    { [Key |-> "a", Value |-> "1"], [Key |-> "b", Value |-> "2"],
      [Key |-> NoString, Value |-> "1"], [Key |-> "a", Value |-> ""] }

TagInputs ==
    { [given |-> FALSE, set |-> << >>] } \cup
    { [given |-> TRUE, set |-> s] :
         s \in UNION { [1..n -> TagEntries] : n \in 0..MaxTags } }

NoTagInput == [given |-> FALSE, set |-> << >>]

\* The request whose answer carries the tags.
TagCommand(service) ==
    CASE service = "s3" -> "GetBucketTagging"
      [] service = "dynamodb" -> "ListTagsOfResource"
      [] service = "ecr" -> "ListTagsForResource"
      [] OTHER -> "GetFunction"

ReplySets(service) ==
    { f \in [Commands(service) -> {"ok", "denied", "absent", "empty"}] :
         \A c \in Commands(service) : f[c] \in ReplyKinds(service, c) }

\* The worlds a get-by-id may meet: the entity does not exist, or it exists
\* and each request has its answer; tags matter where they are answered.
Worlds(service) ==
    { [service |-> service, exists |-> FALSE,
       replies |-> [c \in Commands(service) |-> "ok"],
       tagInput |-> NoTagInput] }
    \cup
    { [service |-> service, exists |-> TRUE, replies |-> x[1], tagInput |-> x[2]] :
         x \in { y \in ReplySets(service) \X TagInputs :
                   y[1][TagCommand(service)] = "ok" \/ y[2] = NoTagInput } }

\* The answer to one request: "ok", "empty", or the name of the error.
Reply(v, cmd) ==
    IF ~v.exists THEN NotFoundName(v.service)
    ELSE IF v.replies[cmd] = "absent" THEN AbsentName(cmd)
    ELSE IF v.replies[cmd] = "denied" THEN "AccessDenied"
    ELSE v.replies[cmd]

IsError(reply) == reply \notin {"ok", "empty"}

(***************************************************************************)
(* Tags: the vendor's tag set folded into a map                            *)
(***************************************************************************)
TaggedAt(set) ==
    {j \in 1..Len(set) : TruthyString(set[j].Key) /\ TruthyString(set[j].Value)}

LastAt(set, k) ==
    CHOOSE j \in TaggedAt(set) :
       /\ set[j].Key = k
       /\ \A h \in TaggedAt(set) : set[h].Key = k => h <= j

\* for (const tag of TagSet) { if (tag.Key && tag.Value) tags[tag.Key] = tag.Value }
FoldTags(set) ==
    [k \in {set[j].Key : j \in TaggedAt(set)} |-> set[LastAt(set, k)].Value]

\* if (TagSet && TagSet.length > 0) { tags = {}; ... }: the map is created
\* as soon as the set has an entry, whether or not an entry is kept.
TagsOf(tagInput) ==
    IF tagInput.given /\ Len(tagInput.set) > 0
    THEN [present |-> TRUE, map |-> FoldTags(tagInput.set)]
    ELSE NoTags

\* The Tags map of a GetFunction response, which the code copies as it is:
\* undefined, or the function's tags as the vendor serves them, one value
\* per key (the last of the set), an empty value included; an entry without
\* a key has no place in a map.
ResponseTags(tagInput) ==
    LET keyed == {j \in 1..Len(tagInput.set) : tagInput.set[j].Key # NoString}
        last(k) == CHOOSE j \in keyed :
                      /\ tagInput.set[j].Key = k
                      /\ \A h \in keyed : tagInput.set[h].Key = k => h <= j
    IN  [present |-> tagInput.given,
         map |-> [k \in {tagInput.set[j].Key : j \in keyed} |->
                    tagInput.set[last(k)].Value]]

(***************************************************************************)
(* The entities and what each answered request sets on them                *)
(***************************************************************************)
VendorLocation == "eu-west-1"

DefaultBucket(bucketName) ==
    [name |-> bucketName, region |-> NoString, versioningEnabled |-> FALSE,
     mfaDeleteEnabled |-> FALSE, encryptionEnabled |-> FALSE,
     encryptionType |-> NoString, lifecycleRules |-> << >>,
     publicAccessBlocked |-> FALSE, policyIsPublic |-> FALSE, tags |-> NoTags]

mapTable(tableName) ==
    [name |-> tableName, ttlEnabled |-> FALSE, pitrEnabled |-> FALSE,
     tags |-> NoTags]

mapRepository(repositoryName) ==
    [name |-> repositoryName, imageTagMutability |-> "MUTABLE",
     scanOnPush |-> FALSE, tags |-> NoTags]

\* { ...this.mapFunction(response.Configuration), tags: response.Tags }
FunctionEntity(v, functionName) ==
    [name |-> mapFunction([id |-> functionName]).functionName,
     version |-> mapFunction([id |-> functionName]).version,
     tags |-> ResponseTags(v.tagInput)]

\* The assignments that follow an answered secondary request.
Apply(cmd, e, v) ==
    CASE cmd = "GetBucketLocation" ->
            [e EXCEPT !.region = IF TruthyString(VendorLocation)
                                 THEN VendorLocation ELSE "us-east-1"]
      [] cmd = "GetBucketVersioning" ->
            [e EXCEPT !.versioningEnabled = TRUE, !.mfaDeleteEnabled = TRUE]
      [] cmd = "GetBucketEncryption" ->
            [e EXCEPT !.encryptionEnabled = TRUE, !.encryptionType = "AES256"]
      [] cmd = "GetBucketLifecycleConfiguration" ->
            [e EXCEPT !.lifecycleRules = << "rule-1" >>]
      [] cmd = "GetPublicAccessBlock" -> [e EXCEPT !.publicAccessBlocked = TRUE]
      [] cmd = "GetBucketPolicyStatus" -> [e EXCEPT !.policyIsPublic = TRUE]
      [] cmd = "DescribeTimeToLive" -> [e EXCEPT !.ttlEnabled = TRUE]
      [] cmd = "DescribeContinuousBackups" -> [e EXCEPT !.pitrEnabled = TRUE]
      [] OTHER -> [e EXCEPT !.tags = TagsOf(v.tagInput)]

(***************************************************************************)
(* Get-by-id: the primary request, then the secondary requests one after   *)
(* the other, each in a try of its own.                                    *)
(***************************************************************************)
\* Variant: the catch of a secondary request rethrows whatever it caught.
SwallowedNever(cmd, error) == FALSE

\* What the catch of a secondary request does with the error it caught.
\* S3Provider tests error.name against the feature-absent name but both
\* branches of the test are empty; DynamoDbProvider and EcrProvider use a
\* bare `catch {}`: every error is swallowed.
Swallowed(cmd, error) == TRUE

\* One secondary request with its try and catch: `await client.send(cmd)`,
\* the assignments on an answer, the catch on an error.
SendSecondary(v, cmd, st) ==
    LET reply == Reply(v, cmd)
        sent == Append(st.sent, cmd)
    IN  IF ~IsError(reply)
        THEN [entity |-> Apply(cmd, st.entity, v), sent |-> sent,
              error |-> NoString]
        ELSE IF Swallowed(cmd, reply)
        THEN [st EXCEPT !.sent = sent]
        ELSE [st EXCEPT !.sent = sent, !.error = reply]

RECURSIVE RunSecondary(_, _, _)
RunSecondary(v, cmds, st) ==
    IF cmds = << >> \/ st.error # NoString THEN st
    ELSE RunSecondary(v, Tail(cmds), SendSecondary(v, Head(cmds), st))

\* return entity, or the outer catch: the not-found error gives undefined,
\* any other error is rethrown.
Outcome(st, notFound) ==
    IF st.error = NoString
    THEN [outcome |-> "entity", entity |-> st.entity, sent |-> st.sent,
          error |-> NoString]
    ELSE IF st.error = notFound
    THEN [outcome |-> "undefined", entity |-> NoEntity, sent |-> st.sent,
          error |-> NoString]
    ELSE [outcome |-> "throws", entity |-> NoEntity, sent |-> st.sent,
          error |-> st.error]

\* The operations that describe the entity first: a response that describes
\* nothing gives undefined; otherwise the secondary requests follow.
DescribeThenEnrich(v, entity) ==
    LET reply == Reply(v, Primary(v.service))
        sent == << Primary(v.service) >>
    IN  IF IsError(reply)
        THEN Outcome([entity |-> NoEntity, sent |-> sent, error |-> reply],
                     NotFoundName(v.service))
        ELSE IF reply = "empty"
        THEN [outcome |-> "undefined", entity |-> NoEntity, sent |-> sent,
              error |-> NoString]
        ELSE Outcome(RunSecondary(v, Secondary(v.service),
                        [entity |-> entity, sent |-> sent, error |-> NoString]),
                     NotFoundName(v.service))

getBucket(v, bucketName) ==
    Outcome(RunSecondary(v, Secondary("s3"),
               [entity |-> DefaultBucket(bucketName), sent |-> << >>,
                error |-> NoString]),
            "NoSuchBucket")

getFunction(v, functionName) == DescribeThenEnrich(v, FunctionEntity(v, functionName))

getTable(v, tableName) == DescribeThenEnrich(v, mapTable(tableName))

getRepository(v, repositoryName) == DescribeThenEnrich(v, mapRepository(repositoryName))

getById(v, name) ==
    CASE v.service = "s3" -> getBucket(v, name)
      [] v.service = "lambda" -> getFunction(v, name)
      [] v.service = "dynamodb" -> getTable(v, name)
      [] OTHER -> getRepository(v, name)

(***************************************************************************)
(* The routes GET /<service>/:account/:name                                *)
(***************************************************************************)
\* if (!entity) res.status(404) else res.json(entity); an error is rethrown
\* by the handler, which then has sent no answer (status 0).
RouteStatus(outcome) ==
    CASE outcome = "undefined" -> 404
      [] outcome = "entity" -> 200
      [] OTHER -> 0

\* The requests of an operation in the order the code sends them.
Requests(service) ==
    (IF Primary(service) = NoString THEN << >> ELSE << Primary(service) >>)
       \o Secondary(service)

\* The entity the operation builds before its secondary requests.
BuiltEntity(v, name) ==
    CASE v.service = "s3" -> DefaultBucket(name)
      [] v.service = "lambda" -> FunctionEntity(v, name)
      [] v.service = "dynamodb" -> mapTable(name)
      [] OTHER -> mapRepository(name)

\* The handler's answer once the operation has returned or thrown.
Answered(j, r) ==
    [j EXCEPT !.pc = "answered", !.outcome = r.outcome, !.entity = r.entity,
              !.sent = r.sent, !.error = r.error,
              !.status = RouteStatus(r.outcome)]

\* The handler of a route is called and runs to the first request of its
\* operation: `await this.getClient(accountName)` throws for an unknown
\* account, and the handler rethrows; otherwise the operation holds its
\* client and, in getBucket, the default entity.
GetRoute(q, service, accountName, name) ==
    /\ vendor.service = service
    /\ jobs[q].pc # "running"
    /\ LET client == getClient(accountName, now)
           j == [IdleJob EXCEPT !.op = service, !.account = accountName,
                                !.name = name]
       IN  jobs' = [jobs EXCEPT ![q] =
                      IF client.error # NoString
                      THEN Answered(j, [outcome |-> "throws", entity |-> NoEntity,
                                        sent |-> << >>, error |-> client.error])
                      ELSE [j EXCEPT !.pc = "running",
                                     !.entity = IF Primary(service) = NoString
                                                THEN BuiltEntity(vendor, name)
                                                ELSE NoEntity]]
    /\ UNCHANGED <<accounts, credentialsCache, now, stsCalls, calls, pages, lst, vendor, det>>

\* One `await client.send(...)` of the operation of request q: the next
\* request is sent and answered.  The primary request builds the entity or
\* ends the operation (an error, a response that describes nothing); a
\* secondary request sets its fields or is caught.  After the last request,
\* or on an error that is not caught, the operation returns or throws and
\* the handler answers.
GetStep(q) ==
    /\ jobs[q].pc = "running"
    /\ jobs[q].op \in Services
    /\ LET j == jobs[q]
           cmd == Requests(j.op)[Len(j.sent) + 1]
           notFound == NotFoundName(j.op)
           primary == cmd = Primary(j.op)
           reply == Reply(vendor, cmd)
           st == IF primary
                 THEN [entity |-> IF IsError(reply) \/ reply = "empty"
                                  THEN NoEntity ELSE BuiltEntity(vendor, j.name),
                       sent |-> << cmd >>,
                       error |-> IF IsError(reply) THEN reply ELSE NoString]
                 ELSE SendSecondary(vendor, cmd,
                         [entity |-> j.entity, sent |-> j.sent, error |-> NoString])
           r == IF primary /\ reply = "empty"
                THEN [outcome |-> "undefined", entity |-> NoEntity,
                      sent |-> st.sent, error |-> NoString]
                ELSE Outcome(st, notFound)
           ended == \/ st.error # NoString
                    \/ primary /\ reply = "empty"
                    \/ Len(st.sent) = Len(Requests(j.op))
       IN  jobs' = [jobs EXCEPT ![q] =
                      IF ended THEN Answered(j, r)
                      ELSE [j EXCEPT !.entity = st.entity, !.sent = st.sent]]
    /\ UNCHANGED <<accounts, credentialsCache, now, stsCalls, calls, pages, lst, vendor, det>>

GetBucketRoute(q, accountName, bucketName) == GetRoute(q, "s3", accountName, bucketName)

GetFunctionRoute(q, accountName, functionName) == GetRoute(q, "lambda", accountName, functionName)

GetTableRoute(q, accountName, tableName) == GetRoute(q, "dynamodb", accountName, tableName)

GetRepositoryRoute(q, accountName, repositoryName) == GetRoute(q, "ecr", accountName, repositoryName)

EntityNames == {"x"}

InitGet ==
    /\ accounts = loadAccounts(<< >>, ListConfig)
    /\ credentialsCache = << >>
    /\ now = 0
    /\ stsCalls = 0
    /\ calls = [p \in Procs |-> IdleCall]
    /\ pages = << >>
    /\ lst = IdleListing
    /\ \E service \in Services : vendor \in Worlds(service)
    /\ jobs = [q \in Slots |-> IdleJob]
    /\ det = IdleDetail

NextGet ==
    \/ \E q \in OneSlot, a \in {"prod", "ghost"}, n \in EntityNames : GetBucketRoute(q, a, n)
    \/ \E q \in OneSlot, a \in {"prod", "ghost"}, n \in EntityNames : GetFunctionRoute(q, a, n)
    \/ \E q \in OneSlot, a \in {"prod", "ghost"}, n \in EntityNames : GetTableRoute(q, a, n)
    \/ \E q \in OneSlot, a \in {"prod", "ghost"}, n \in EntityNames : GetRepositoryRoute(q, a, n)
    \/ \E q \in OneSlot : GetStep(q)

SpecGet == InitGet /\ [][NextGet]_vars

(***************************************************************************)
(* EfsProvider.getLifecycleConfiguration and its route                     *)
(* GET /efs/:account/:fileSystemId/lifecycle: a list scoped to a parent.   *)
(***************************************************************************)
MaxPolicies == 3

LifecyclePolicies ==
    { [TransitionToIA |-> "AFTER_30_DAYS", TransitionToPrimaryStorageClass |-> NoString,
       TransitionToArchive |-> NoString],
      [TransitionToIA |-> NoString, TransitionToPrimaryStorageClass |-> "AFTER_1_ACCESS",
       TransitionToArchive |-> NoString],
      [TransitionToIA |-> NoString, TransitionToPrimaryStorageClass |-> NoString,
       TransitionToArchive |-> "AFTER_90_DAYS"],
      [TransitionToIA |-> NoString, TransitionToPrimaryStorageClass |-> NoString,
       TransitionToArchive |-> NoString] }

\* The file systems the operation may meet: one that does not exist, one
\* whose request is rejected, one that answers with its policies (the
\* LifecyclePolicies member may be missing from the response).
EfsWorlds ==
    { [service |-> "efs", exists |-> FALSE, reply |-> "ok", given |-> FALSE,
       policies |-> << >>],
      [service |-> "efs", exists |-> TRUE, reply |-> "denied", given |-> FALSE,
       policies |-> << >>],
      [service |-> "efs", exists |-> TRUE, reply |-> "ok", given |-> FALSE,
       policies |-> << >>] }
    \cup
    { [service |-> "efs", exists |-> TRUE, reply |-> "ok", given |-> TRUE,
       policies |-> s] :
         s \in UNION { [1..n -> LifecyclePolicies] : n \in 0..MaxPolicies } }

mapLifecyclePolicy(lp) ==
    [transitionToIA |-> lp.TransitionToIA,
     transitionToPrimaryStorageClass |-> lp.TransitionToPrimaryStorageClass,
     transitionToArchive |-> lp.TransitionToArchive]

\* try { return (response.LifecyclePolicies ?? []).map(mapLifecyclePolicy) }
\* catch: FileSystemNotFound gives [], any other error is rethrown.
getLifecycleConfiguration(v, fileSystemId) ==
    IF ~v.exists
    THEN [outcome |-> "list", list |-> << >>, error |-> NoString]
    ELSE IF v.reply = "denied"
    THEN [outcome |-> "throws", list |-> << >>, error |-> "AccessDenied"]
    ELSE [outcome |-> "list",
          list |-> IF v.given
                   THEN [j \in 1..Len(v.policies) |-> mapLifecyclePolicy(v.policies[j])]
                   ELSE << >>,
          error |-> NoString]

\* The handler is called and runs to the request of its operation: `await
\* this.getClient(accountName)` throws for an unknown account and the
\* handler rethrows; otherwise the request is sent.
LifecycleRoute(q, accountName, fileSystemId) ==
    /\ vendor.service = "efs"
    /\ jobs[q].pc # "running"
    /\ LET client == getClient(accountName, now)
           j == [IdleJob EXCEPT !.op = "efs", !.account = accountName,
                                !.name = fileSystemId]
       IN  jobs' = [jobs EXCEPT ![q] =
                     IF client.error # NoString
                     THEN [j EXCEPT !.pc = "answered", !.outcome = "throws",
                                    !.error = client.error]
                     ELSE [j EXCEPT !.pc = "running",
                                    !.sent = << "DescribeLifecycleConfiguration" >>]]
    /\ UNCHANGED <<accounts, credentialsCache, now, stsCalls, calls, pages, lst, vendor, det>>

\* `await client.send(command)` resumes: the operation returns or throws,
\* and the handler answers res.json(lifecycle) or rethrows.
LifecycleAnswered(q) ==
    /\ jobs[q].pc = "running"
    /\ jobs[q].op = "efs"
    /\ LET r == getLifecycleConfiguration(vendor, jobs[q].name)
       IN  jobs' = [jobs EXCEPT ![q] =
                     [jobs[q] EXCEPT !.pc = "answered", !.outcome = r.outcome,
                                     !.list = r.list, !.error = r.error,
                                     !.status = IF r.outcome = "list" THEN 200 ELSE 0]]
    /\ UNCHANGED <<accounts, credentialsCache, now, stsCalls, calls, pages, lst, vendor, det>>

InitEfs ==
    /\ accounts = loadAccounts(<< >>, ListConfig)
    /\ credentialsCache = << >>
    /\ now = 0
    /\ stsCalls = 0
    /\ calls = [p \in Procs |-> IdleCall]
    /\ pages = << >>
    /\ lst = IdleListing
    /\ vendor \in EfsWorlds
    /\ jobs = [q \in Slots |-> IdleJob]
    /\ det = IdleDetail

NextEfs ==
    \/ \E q \in Slots, a \in {"prod", "ghost"}, n \in EntityNames : LifecycleRoute(q, a, n)
    \/ \E q \in Slots : LifecycleAnswered(q)

SpecEfs == InitEfs /\ [][NextEfs]_vars

(***************************************************************************)
(* SsmProvider.getParameter and its route GET /ssm/:account/parameter      *)
(***************************************************************************)
ParameterTypes == {"String", "StringList", "SecureString", NoString}

ParameterValues == {NoString, "", "hunter2", "tiger", "a,b"}

\* The worlds of a parameter: it does not exist, its request is rejected,
\* the response carries no Parameter, or it carries one.
SsmWorlds ==
    { [service |-> "ssm", exists |-> e, reply |-> r,
       parameter |-> [Name |-> "x", Type |-> t, Value |-> v]] :
         e \in BOOLEAN, r \in {"ok", "denied", "empty"},
         t \in ParameterTypes, v \in ParameterValues }

getParameter(v, name, withDecryption) ==
    IF ~v.exists
    THEN [outcome |-> "undefined", entity |-> NoEntity, error |-> NoString]
    ELSE IF v.reply = "denied"
    THEN [outcome |-> "throws", entity |-> NoEntity, error |-> "AccessDenied"]
    ELSE IF v.reply = "empty"
    THEN [outcome |-> "undefined", entity |-> NoEntity, error |-> NoString]
    ELSE [outcome |-> "entity", entity |-> mapParameter(v.parameter, withDecryption),
          error |-> NoString]

\* The handler is called: 400 without a name; else getParameter(account,
\* name, decrypt === 'true') runs to its request: `await getClient` throws
\* for an unknown account and the handler rethrows; otherwise the request
\* is sent.
GetParameterRoute(q, accountName, name, decrypt) ==
    /\ vendor.service = "ssm"
    /\ jobs[q].pc # "running"
    /\ LET client == getClient(accountName, now)
           j == [IdleJob EXCEPT !.op = "ssm", !.account = accountName,
                                !.name = name, !.decrypt = (decrypt = "true")]
       IN  jobs' = [jobs EXCEPT ![q] =
                     IF ~TruthyString(name)
                     THEN [j EXCEPT !.pc = "answered", !.status = 400]
                     ELSE IF client.error # NoString
                     THEN [j EXCEPT !.pc = "answered", !.outcome = "throws",
                                    !.error = client.error]
                     ELSE [j EXCEPT !.pc = "running", !.sent = << "GetParameter" >>]]
    /\ UNCHANGED <<accounts, credentialsCache, now, stsCalls, calls, pages, lst, vendor, det>>

\* `await client.send(command)` of getParameter resumes: the operation
\* returns or throws, and the handler answers.
GetParameterAnswered(q) ==
    /\ jobs[q].pc = "running"
    /\ jobs[q].op = "ssm"
    /\ LET r == getParameter(vendor, jobs[q].name, jobs[q].decrypt)
       IN  jobs' = [jobs EXCEPT ![q] =
                     [jobs[q] EXCEPT !.pc = "answered", !.outcome = r.outcome,
                                     !.entity = r.entity, !.error = r.error,
                                     !.status = RouteStatus(r.outcome)]]
    /\ UNCHANGED <<accounts, credentialsCache, now, stsCalls, calls, pages, lst, vendor, det>>

InitSsm ==
    /\ accounts = loadAccounts(<< >>, ListConfig)
    /\ credentialsCache = << >>
    /\ now = 0
    /\ stsCalls = 0
    /\ calls = [p \in Procs |-> IdleCall]
    /\ pages = << >>
    /\ lst = IdleListing
    /\ vendor \in SsmWorlds
    /\ jobs = [q \in Slots |-> IdleJob]
    /\ det = IdleDetail

NextSsm ==
    \/ \E q \in Slots, a \in {"prod", "ghost"}, n \in {NoString, "x"},
          decrypt \in {NoString, "true", "false"} :
             GetParameterRoute(q, a, n, decrypt)
    \/ \E q \in Slots : GetParameterAnswered(q)

SpecSsm == InitSsm /\ [][NextSsm]_vars

(***************************************************************************)
(* GET /accounts                                                           *)
(***************************************************************************)
MaxAccounts == 3

RoleArns == {"arn:role/a", "arn:role/b"}

ExternalIds == {NoString, "ext-1"}

AccountConfig ==
    { [name |-> n, accountId |-> i, region |-> "eu-west-1", roleArn |-> r,
       externalId |-> e] :
         n \in {"prod", "dev"}, i \in {"111", "222"}, r \in RoleArns,
         e \in ExternalIds }

\* The aws.accounts arrays of at most MaxAccounts entries.
AccountConfigs == UNION { [1..n -> AccountConfig] : n \in 0..MaxAccounts }

\* Variant: the response passes the whole account on.
AccountsResponseWhole(as) == as

\* getAccounts().map(a => ({ name, accountId, region }))
AccountsResponse(as) ==
    [i \in 1..Len(as) |->
       [name |-> as[i].name, accountId |-> as[i].accountId, region |-> as[i].region]]

AccountsRoute(q) ==
    /\ vendor.service = "config"
    /\ jobs' = [jobs EXCEPT ![q] =
                  [IdleJob EXCEPT !.op = "accounts", !.pc = "answered",
                                  !.outcome = "list",
                                  !.list = AccountsResponse(getAccounts),
                                  !.status = 200]]
    /\ UNCHANGED <<accounts, credentialsCache, now, stsCalls, calls, pages, lst, vendor, det>>

InitAccounts ==
    /\ vendor \in { [service |-> "config", config |-> c] : c \in AccountConfigs }
    /\ accounts = loadAccounts(<< >>, vendor.config)
    /\ credentialsCache = << >>
    /\ now = 0
    /\ stsCalls = 0
    /\ calls = [p \in Procs |-> IdleCall]
    /\ pages = << >>
    /\ lst = IdleListing
    /\ jobs = [q \in Slots |-> IdleJob]
    /\ det = IdleDetail

NextAccounts == \E q \in OneSlot : AccountsRoute(q)

SpecAccounts == InitAccounts /\ [][NextAccounts]_vars

(***************************************************************************)
(* The router around a handler.  createRouter builds its router with       *)
(* Router() of 'express' and registers `async (req, res) => { ... }`       *)
(* handlers whose catch logs and rethrows; errorHandler() is the last      *)
(* middleware.  The router calls a handler and drops the promise it        *)
(* returns: a handler that rejects has called neither res nor next, so no  *)
(* middleware after it runs and the request keeps the answer it has, if    *)
(* any.                                                                    *)
(***************************************************************************)
\* The status of the request once the handler's promise has settled: the
\* one the handler set, none (0) when it threw; nothing observes the
\* rejection and errorHandler is not called.
StatusAfterHandler(outcome, status) == status

RouterAfterHandler(q) ==
    /\ jobs[q].pc = "answered"
    /\ jobs' = [jobs EXCEPT ![q] =
                  [jobs[q] EXCEPT !.pc = "settled",
                                  !.status = StatusAfterHandler(jobs[q].outcome,
                                                                jobs[q].status)]]
    /\ UNCHANGED <<accounts, credentialsCache, now, stsCalls, calls, pages, lst, vendor, det>>

\* The router takes a request and calls its handler; the handlers of the
\* requests it holds run interleaved, each resumed at its own awaits.
HttpRequest(q, service, accountName, name) ==
    /\ jobs[q].pc \in {"idle", "settled"}
    /\ GetRoute(q, service, accountName, name)

\* The worlds of the requests: the tags of the entity do not reach the
\* status of an answer.
InitHttp ==
    /\ accounts = loadAccounts(<< >>, ListConfig)
    /\ credentialsCache = << >>
    /\ now = 0
    /\ stsCalls = 0
    /\ calls = [p \in Procs |-> IdleCall]
    /\ pages = << >>
    /\ lst = IdleListing
    /\ \E service \in Services :
          vendor \in {v \in Worlds(service) : v.tagInput = NoTagInput}
    /\ jobs = [q \in Slots |-> IdleJob]
    /\ det = IdleDetail

NextHttp ==
    \/ \E q \in Slots, service \in Services, a \in {"prod", "ghost"}, n \in EntityNames :
          HttpRequest(q, service, a, n)
    \/ \E q \in Slots : GetStep(q)
    \/ \E q \in Slots : RouterAfterHandler(q)

\* A handler that was called runs to its end: every await of it resumes.
SpecHttp ==
    /\ InitHttp
    /\ [][NextHttp]_vars
    /\ \A q \in Slots : WF_vars(GetStep(q)) /\ WF_vars(RouterAfterHandler(q))

(***************************************************************************)
(* Detail listings: S3Provider.listBucketsWithDetails and                  *)
(* DynamoDbProvider.listTablesWithDetails.  The primary listing gives the  *)
(* names; the names are cut into batches of batchSize; the get-by-id of    *)
(* every name of a batch is started at once and awaited with Promise.all;  *)
(* the entities of a batch are pushed once the whole batch has settled.    *)
(***************************************************************************)
BatchSize == 5
MaxItems == 12

DetailServices == {"s3", "dynamodb"}

\* The sizes of the vendor's pages of table names: the vendor's default of
\* 100 names (one page here), or pages of 3.
TablePageSizes == {3, 100}

\* What the vendor holds about the listed items: item j is "ok", "missing"
\* (deleted since the primary listing) or "fails" (its requests are
\* rejected with an error other than not-found).
StatusPatterns ==
    {"allOk", "thirdMissing", "secondFails", "lastFails", "mixed", "secondUnnamed"}

StatusOf(pattern, n, j) ==
    CASE pattern = "thirdMissing" -> IF j % 3 = 0 THEN "missing" ELSE "ok"
      [] pattern = "secondFails" -> IF j = 2 THEN "fails" ELSE "ok"
      [] pattern = "lastFails" -> IF j = n THEN "fails" ELSE "ok"
      [] pattern = "mixed" -> IF j % 3 = 0 THEN "missing"
                              ELSE IF j = n - 1 THEN "fails" ELSE "ok"
      [] OTHER -> "ok"

\* Items are named 1, 2, ...; 0 stands for a listed bucket without a Name.
\* The vendor answers ListTables in pages of perPage names; ListBuckets
\* has one answer.
DetailWorld(service, n, pattern, perPage) ==
    [service |-> service, perPage |-> perPage,
     listed |-> [j \in 1..n |-> IF pattern = "secondUnnamed" /\ j = 2 THEN 0 ELSE j],
     status |-> [j \in 0..n |-> StatusOf(pattern, n, j)]]

\* The world the get-by-id of one item meets.
ItemWorld(service, status) ==
    [service |-> service, exists |-> status # "missing",
     replies |-> [c \in Commands(service) |->
                     IF status = "fails" THEN "denied" ELSE "ok"],
     tagInput |-> NoTagInput]

\* this.getBucket(accountName, name) / this.getTable(accountName, name)
ItemResult(v, name) == getById(ItemWorld(v.service, v.status[name]), name)

TruthyName(name) == name # 0

\* (response.Buckets ?? []).map(b => b.Name).filter(name => !!name) for S3;
\* the table names as listed for DynamoDB.
PrimaryNames(v) ==
    IF v.service = "s3" THEN SelectSeq(v.listed, TruthyName) ELSE v.listed

\* Variant: the slice takes one name too many.
BatchOfOverlapping(names, i) ==
    SubSeq(names, i + 1,
           IF i + BatchSize + 1 < Len(names) THEN i + BatchSize + 1 ELSE Len(names))

\* names.slice(i, i + batchSize)
BatchOf(names, i) ==
    SubSeq(names, i + 1,
           IF i + BatchSize < Len(names) THEN i + BatchSize ELSE Len(names))

\* batch.map(name => this.getX(accountName, name)): every get-by-id of the
\* batch is started; the items are known by their position in the batch.
StartBatch(d, i) ==
    [d EXCEPT !.pc = "batch", !.i = i, !.batch = BatchOf(d.names, i),
              !.running = 1..Len(BatchOf(d.names, i)), !.order = << >>,
              !.batches = Append(@, Len(BatchOf(d.names, i)))]

\* The test of the for loop: another batch, or `return`.
EnterLoop(d, i) ==
    IF i < Len(d.names) THEN StartBatch(d, i)
    ELSE [d EXCEPT !.pc = "returned", !.i = i, !.batch = << >>,
                   !.result = d.tables]

\* Variant: the results of a batch in the order the items settled.
BatchResultsAsSettled(d, v) ==
    [j \in 1..Len(d.order) |-> ItemResult(v, d.batch[d.order[j]])]

\* The array Promise.all resolves to: one result per item, in batch order.
BatchResults(d, v) ==
    [j \in 1..Len(d.batch) |-> ItemResult(v, d.batch[j])]

IsEntity(r) == r.outcome = "entity"

\* batchResults.filter(x => x !== undefined)
Entities(results) ==
    LET kept == SelectSeq(results, IsEntity)
    IN  [j \in 1..Len(kept) |-> kept[j].entity]

\* The names one answer of the primary listing carries, after `got` names:
\* all the bucket names, or the next page of table names.
ListedPage(v, got) ==
    IF v.service = "s3" THEN PrimaryNames(v)
    ELSE SubSeq(v.listed, got + 1,
                IF got + v.perPage < Len(v.listed) THEN got + v.perPage
                ELSE Len(v.listed))

\* LastEvaluatedTableName is set: the vendor holds more table names.
MoreListed(v, got) == v.service = "dynamodb" /\ got < Len(v.listed)

\* The detail listing is called: `await getClient` throws for an unknown
\* account; otherwise the request of the primary listing is sent and the
\* listing waits for its answer.
DetailStart(service, accountName) ==
    /\ vendor.service = service
    /\ det.pc = "idle"
    /\ det' = LET d == [IdleDetail EXCEPT !.op = service, !.account = accountName]
              IN  IF getClient(accountName, now).error # NoString
                  THEN [d EXCEPT !.pc = "failed",
                                 !.error = getClient(accountName, now).error]
                  ELSE [d EXCEPT !.pc = "listing"]
    /\ UNCHANGED <<accounts, credentialsCache, now, stsCalls, calls, pages, lst, vendor, jobs>>

ListBucketsWithDetails(accountName) == DetailStart("s3", accountName)

ListTablesWithDetails(accountName) == DetailStart("dynamodb", accountName)

\* `await client.send(...)` of the primary listing resumes: an error leaves
\* the listing; an answer gives the names (ListBuckets) or the next page of
\* them (the do-while loop of listTables, which sends its next request
\* while the vendor holds more); with all names, the first batch starts (or
\* the listing returns, when nothing is listed).
ListingAnswered(answer) ==
    /\ det.pc = "listing"
    /\ det' = IF answer = "error"
              THEN [det EXCEPT !.pc = "failed", !.error = "VendorFailure"]
              ELSE LET names == det.names \o ListedPage(vendor, Len(det.names))
                       got == IF vendor.service = "s3" THEN Len(vendor.listed)
                              ELSE Len(names)
                   IN  IF MoreListed(vendor, got)
                       THEN [det EXCEPT !.names = names]
                       ELSE EnterLoop([det EXCEPT !.names = names], 0)
    /\ UNCHANGED <<accounts, credentialsCache, now, stsCalls, calls, pages, lst, vendor, jobs>>

\* Variant: the batch counts as settled at its first fulfilled item.
BatchSettledAtFirst(d) == d.order # << >>

\* `await Promise.all(...)` resumes once every get-by-id of the batch has
\* been fulfilled.
BatchSettled(d) == d.running = {}

\* The get-by-id of the item at position pos of the batch settles.  A
\* rejection rejects Promise.all at once: the listing throws, its local
\* `tables` is gone, the other items of the batch go on unobserved.  When
\* the last item of the batch settles, Promise.all resolves, the entities
\* are pushed and the loop goes on.
ItemSettles(pos) ==
    /\ det.pc \in {"batch", "failed"}
    /\ pos \in det.running
    /\ LET r == ItemResult(vendor, det.batch[pos])
           d == [det EXCEPT !.running = @ \ {pos}, !.order = Append(@, pos)]
       IN  det' = IF det.pc = "failed" THEN d
                  ELSE IF r.outcome = "throws"
                  THEN [d EXCEPT !.pc = "failed", !.error = r.error]
                  ELSE IF ~BatchSettled(d) THEN d
                  ELSE EnterLoop([d EXCEPT !.tables =
                                     @ \o Entities(BatchResults(d, vendor))],
                                 d.i + BatchSize)
    /\ UNCHANGED <<accounts, credentialsCache, now, stsCalls, calls, pages, lst, vendor, jobs>>

InitDetail ==
    /\ accounts = loadAccounts(<< >>, ListConfig)
    /\ credentialsCache = << >>
    /\ now = 0
    /\ stsCalls = 0
    /\ calls = [p \in Procs |-> IdleCall]
    /\ pages = << >>
    /\ lst = IdleListing
    /\ \E service \in DetailServices, n \in 0..MaxItems, pattern \in StatusPatterns,
          perPage \in TablePageSizes :
          /\ pattern = "secondUnnamed" => service = "s3" /\ n >= 2
          /\ service = "s3" => perPage = 100
          /\ vendor = DetailWorld(service, n, pattern, perPage)
    /\ jobs = [q \in Slots |-> IdleJob]
    /\ det = IdleDetail

NextDetail ==
    \/ \E a \in {"prod", "ghost"} : ListBucketsWithDetails(a)
    \/ \E a \in {"prod", "ghost"} : ListTablesWithDetails(a)
    \/ \E answer \in {"list", "error"} : ListingAnswered(answer)
    \/ \E pos \in 1..BatchSize : ItemSettles(pos)

SpecDetail == InitDetail /\ [][NextDetail]_vars

(***************************************************************************)
(* Two concurrent getCredentials calls for one account.  getCredentials    *)
(* holds no lock and keeps no record of an exchange in flight: a second    *)
(* call entered while the first awaits the service finds the same missing  *)
(* or stale entry and starts an exchange of its own.                       *)
(***************************************************************************)
RaceAccount == "prod"

InitRace ==
    /\ accounts = loadAccounts(<< >>, ListConfig)
    /\ credentialsCache = << >>
    /\ now = 0
    /\ stsCalls = 0
    /\ calls = [p \in Procs |-> IdleCall]
    /\ pages = << >>
    /\ lst = IdleListing
    /\ vendor = NoVendor
    /\ jobs = [q \in Slots |-> IdleJob]
    /\ det = IdleDetail

NextRace ==
    \/ \E d \in TickSteps : Tick(d)
    \/ \E p \in Procs : GetCredentials(p, RaceAccount)
    \/ \E p \in Procs : \E reply \in StsReplies(now) : StsReply(p, reply)

SpecRace == InitRace /\ [][NextRace]_vars

(***************************************************************************)
(* Two callers and two accounts: getCredentials, getCredentialsProvider    *)
(* and provider operations side by side.                                   *)
(***************************************************************************)
SessionConfig ==
    << [name |-> "prod", accountId |-> "111", region |-> "eu-west-1",
        roleArn |-> "arn:role/prod", externalId |-> "ext-prod"],
       [name |-> "dev", accountId |-> "222", region |-> "eu-west-2",
        roleArn |-> "arn:role/dev", externalId |-> NoString] >>

\* The exchange fails, or gives credentials without an Expiration.
SessionReplies ==
    { [kind |-> "throws", expiration |-> NoDate],
      [kind |-> "credentials", expiration |-> NoDate] }

InitSession ==
    /\ accounts = loadAccounts(<< >>, SessionConfig)
    /\ credentialsCache = << >>
    /\ now = 0
    /\ stsCalls = 0
    /\ calls = [p \in Procs |-> IdleCall]
    /\ pages = << >>
    /\ lst = IdleListing
    /\ vendor = NoVendor
    /\ jobs = [q \in Slots |-> IdleJob]
    /\ det = IdleDetail

NextSession ==
    \/ \E d \in TickSteps : Tick(d)
    \/ \E p \in Procs, a \in {"prod", "dev"} : GetCredentials(p, a)
    \/ \E p \in Procs : \E reply \in SessionReplies : StsReply(p, reply)
    \/ \E p \in Procs, a \in {"prod", "dev"} : GetCredentialsProvider(p, a)
    \/ \E p \in Procs, a \in {"prod", "dev"} : GetClient(p, a)
    \/ \E p \in Procs, renew \in BOOLEAN, last \in BOOLEAN :
          ClientSend(p, renew, [kind |-> "credentials", expiration |-> NoDate], last)

SpecSession == InitSession /\ [][NextSession]_vars

(***************************************************************************)
(* Listings against a vendor whose pages may never end: the last page may  *)
(* carry the token of the first one.  The loop has no bound of its own;    *)
(* the model stops following it after MaxFetches requests.                 *)
(***************************************************************************)
MaxFetches == 5

CyclicCursor == Tokens[1]

InitCursor ==
    /\ accounts = loadAccounts(<< >>, ListConfig)
    /\ credentialsCache = << >>
    /\ now = 0
    /\ stsCalls = 0
    /\ calls = [p \in Procs |-> IdleCall]
    /\ \E sizes \in PageShapes, end \in EndCursors \cup {CyclicCursor} :
          pages = VendorPages(sizes, end, "rising")
    /\ lst = IdleListing
    /\ vendor = NoVendor
    /\ jobs = [q \in Slots |-> IdleJob]
    /\ det = IdleDetail

CursorFetch(answer) ==
    /\ lst.fetches < MaxFetches
    /\ ListFetch(answer)

NextCursor ==
    \/ \E kind \in ListKinds, m \in Ceilings : ListStart(kind, "prod", m)
    \/ \E answer \in {"page", "error"} : CursorFetch(answer)

\* The loop goes on once the vendor has answered, and the vendor answers.
SpecCursor ==
    InitCursor /\ [][NextCursor]_vars
       /\ WF_vars(\E answer \in {"page", "error"} : CursorFetch(answer))

(***************************************************************************)
(* Steps of a caller, as seen from outside                                 *)
(***************************************************************************)
\* p enters getCredentials in this step.
EntersGetCredentials(p) ==
    /\ calls[p].pc \notin {"sts", "client"}
    /\ calls'[p] # calls[p]
    /\ calls'[p].op = "getCredentials"

\* p resumes getCredentials after the await of the exchange in this step.
ResumesGetCredentials(p) ==
    /\ calls[p].op = "getCredentials"
    /\ calls[p].pc = "sts"
    /\ calls'[p] # calls[p]

\* the client of p's provider operation sends a request in this step.
SendsRequest(p) ==
    /\ calls[p].op = "providerOp"
    /\ calls[p].pc = "client"
    /\ calls'[p] # calls[p]

\* the cache holds an entry for a that expires more than 60 s after now.
FreshEntry(a) ==
    /\ a \in DOMAIN credentialsCache
    /\ credentialsCache[a].expiresAt - now > 60000

(***************************************************************************)
(* C1: every lease getCredentials returns, cached or newly assumed, has    *)
(* expiresAt strictly more than 60 s after the moment it is returned.      *)
(* The code tests the margin on the cached entry only; a new lease is      *)
(* returned with whatever Expiration the exchange supplied.                *)
(***************************************************************************)
C1_ReturnedLeaseFresh ==
    [][\A p \in Procs :
          ( /\ calls'[p] # calls[p]
            /\ calls'[p].op = "getCredentials"
            /\ calls'[p].pc = "returned" )
          => calls'[p].result.expiresAt - now' > 60000]_vars

(***************************************************************************)
(* C2: a getCredentials call made for a known account while its cached     *)
(* entry expires more than 60 s ahead returns the cached entry itself and  *)
(* performs no AssumeRole exchange; the cache is left as it is.            *)
(***************************************************************************)
C2_CacheHitNoExchange ==
    [][\A p \in Procs :
          ( /\ EntersGetCredentials(p)
            /\ FreshEntry(calls'[p].account) )
          => /\ calls'[p].pc = "returned"
             /\ calls'[p].result = credentialsCache[calls'[p].account]
             /\ calls'[p].exchanges = 0
             /\ stsCalls' = stsCalls
             /\ credentialsCache' = credentialsCache]_vars

C2_Witness ==
    \E p \in Procs :
        /\ calls[p].op = "getCredentials"
        /\ calls[p].pc = "returned"
        /\ calls[p].hit
        /\ calls[p].result = credentialsCache[calls[p].account]
        /\ stsCalls = 1
        /\ now > 0

(***************************************************************************)
(* C3: a getCredentials call for a known account whose entry is missing or *)
(* expires within 60 s sends exactly one exchange and does not return the  *)
(* stale entry; when the exchange yields credentials the call stores the   *)
(* new lease under the account and returns that lease.                     *)
(***************************************************************************)
C3_RenewalOnMiss ==
    [][\A p \in Procs :
          /\ ( /\ EntersGetCredentials(p)
               /\ hasAccount(calls'[p].account)
               /\ ~FreshEntry(calls'[p].account) )
             => /\ calls'[p].pc = "sts"
                /\ calls'[p].exchanges = 1
                /\ stsCalls' = stsCalls + 1
          /\ ( /\ ResumesGetCredentials(p)
               /\ calls'[p].pc = "returned" )
             => /\ calls'[p].exchanges = 1
                /\ stsCalls' = stsCalls
                /\ calls'[p].result.credentials.accessKeyId = calls[p].key
                /\ credentialsCache'[calls[p].account] = calls'[p].result
                /\ ( calls[p].account \in DOMAIN credentialsCache
                     => calls'[p].result # credentialsCache[calls[p].account] )]_vars

C3_Witness ==
    \E p \in Procs :
        /\ calls[p].op = "getCredentials"
        /\ calls[p].pc = "returned"
        /\ ~calls[p].hit
        /\ calls[p].exchanges = 1
        /\ calls[p].result = credentialsCache[calls[p].account]
        /\ calls[p].result.credentials.accessKeyId >= 2
        /\ now >= 3540000

(***************************************************************************)
(* C4: an operation called with an account name that is not in the         *)
(* registry (getCredentials, getCredentialsProvider, a provider operation  *)
(* through getClient) fails with the unknown-account error, has sent no    *)
(* exchange and no vendor request, and leaves the cache unchanged.         *)
(***************************************************************************)
C4_UnknownAccountFails ==
    /\ [](\A p \in Procs :
            (calls[p].op # "none" /\ ~hasAccount(calls[p].account))
            => /\ calls[p].pc = "failed"
               /\ calls[p].error = "UnknownAccount"
               /\ calls[p].exchanges = 0
               /\ calls[p].sends = 0)
    /\ [][\A p \in Procs :
            (calls'[p] # calls[p] /\ ~hasAccount(calls'[p].account))
            => /\ stsCalls' = stsCalls
               /\ credentialsCache' = credentialsCache]_vars

C4_Witness ==
    \E p \in Procs :
        /\ calls[p].op = "providerOp"
        /\ calls[p].account = "ghost"
        /\ calls[p].pc = "failed"
        /\ calls[p].error = "UnknownAccount"
        /\ stsCalls > 0
        /\ DOMAIN credentialsCache # {}

(***************************************************************************)
(* C5: when the exchange throws or answers without Credentials,            *)
(* getCredentials fails, returns no lease, and the step leaves the whole   *)
(* cache, the account's entry included, as it was.                         *)
(***************************************************************************)
C5_FailedExchangeKeepsCache ==
    [][\A p \in Procs :
          ( /\ ResumesGetCredentials(p)
            /\ calls'[p].reply \in {"throws", "empty"} )
          => /\ calls'[p].pc = "failed"
             /\ calls'[p].error \in {"StsError", "AssumeRoleFailed"}
             /\ calls'[p].result = NoLease
             /\ credentialsCache' = credentialsCache]_vars

C5_Witness ==
    \E p \in Procs :
        /\ calls[p].op = "getCredentials"
        /\ calls[p].pc = "failed"
        /\ calls[p].reply = "empty"
        /\ calls[p].error = "AssumeRoleFailed"
        /\ calls[p].account \in DOMAIN credentialsCache

(***************************************************************************)
(* C6: the credentials supplier of a provider's client takes its           *)
(* credentials from getCredentials, so a request sent while a fresh lease  *)
(* of the account is cached causes no new AssumeRole exchange.  The        *)
(* supplier is fromTemporaryCredentials: it assumes the role by itself on  *)
(* the first request of every client and never reads the cache.            *)
(***************************************************************************)
C6_SupplierUsesBroker ==
    [][\A p \in Procs :
          ( /\ SendsRequest(p)
            /\ FreshEntry(calls[p].account) )
          => stsCalls' = stsCalls]_vars

(***************************************************************************)
(* Observations on a listing                                               *)
(***************************************************************************)
\* The identifier a listed item carries; the vendor numbers its items
\* 1, 2, ... in the order it returns them.
ListedId(kind, x) ==
    CASE kind = "listFunctions" -> x.functionName
      [] kind = "listInstances" -> x.dbInstanceIdentifier
      [] kind = "listTables" -> x
      [] kind = "listSecrets" -> x.name
      [] kind = "getParametersByPath" ->
            CHOOSE k \in 1..Len(ParameterNames) : ParameterNames[k] = x.name
      [] kind = "listClusters" -> x.clusterName
      [] kind = "listRestApis" -> x.id
      [] OTHER -> x.imageDigest

VendorTotal == SumTo([i \in 1..Len(pages) |-> Len(pages[i].items)], Len(pages))

\* listImages has returned and was given a ceiling: a non-negative integer.
ImagesReturned ==
    lst.op = "listImages" /\ lst.pc = "returned" /\ lst.maxResults >= 0

(***************************************************************************)
(* C7: for pages p1..pn of which only pn has an absent (undefined or       *)
(* empty) cursor, listFunctions, listInstances and listTables return the   *)
(* items of p1..pn in page order and item order, and send exactly n        *)
(* requests.                                                               *)
(***************************************************************************)
C7_ListingConcatenatesPages ==
    (lst.pc = "returned" /\ lst.op \in PlainKinds)
    => /\ lst.fetches = Len(pages)
       /\ Len(lst.result) = VendorTotal
       /\ \A j \in 1..Len(lst.result) : ListedId(lst.op, lst.result[j]) = j

C7_Witness ==
    /\ lst.pc = "returned"
    /\ lst.op \in PlainKinds
    /\ Len(pages) = 3
    /\ Len(pages[1].items) = 2 /\ Len(pages[2].items) = 2 /\ Len(pages[3].items) = 1
    /\ lst.fetches = 3
    /\ Len(lst.result) = 5

(***************************************************************************)
(* C8: with a maxResults ceiling (any non-negative integer, 0 included)    *)
(* listImages returns at most maxResults images, and exactly maxResults    *)
(* when the vendor has at least that many.  The code tests the ceiling by  *)
(* truthiness, so a ceiling of 0 cuts nothing.                             *)
(***************************************************************************)
C8_CeilingTruncates ==
    ImagesReturned
    => /\ Len(lst.result) <= lst.maxResults
       /\ (VendorTotal >= lst.maxResults => Len(lst.result) = lst.maxResults)

(***************************************************************************)
(* C9: with a maxResults ceiling, listImages requests no page after the    *)
(* first page at which the number of images held reaches the ceiling:      *)
(* every request but the last was sent with fewer than maxResults images   *)
(* read by the requests before it plus its own page.                       *)
(***************************************************************************)
C9_StopsAtCeiling ==
    (lst.op = "listImages" /\ lst.maxResults >= 0)
    => \A k \in 1..(lst.fetches - 1) : Len(ItemsUpTo(k)) < lst.maxResults

(***************************************************************************)
(* C10: with a maxResults ceiling the images returned are a                *)
(* prefix of the vendor's sequence, in the order the vendor returned them. *)
(***************************************************************************)
C10_PrefixOfVendorOrder ==
    ImagesReturned
    => \A j \in 1..Len(lst.result) : lst.result[j].imageDigest = j

(***************************************************************************)
(* C11: a vendor error on a page fetch fails the listing                   *)
(***************************************************************************)
\* C11: when the vendor answers a page fetch of a paginated listing with an
\* error, the listing fails with that error and returns none of the items it
\* had accumulated, and it fetches no further page: the only step a failed
\* listing allows is the start of another listing, with no fetch made.
C11_ErrorFailsListing ==
    /\ [](lst.error = "VendorFailure" => lst.pc = "failed" /\ lst.result = << >>)
    /\ [][lst.pc = "failed" => lst'.fetches = 0 /\ lst'.sent = << >>]_vars

\* listSecrets failed on its second fetch, holding the items of the first
\* page, with a page of the vendor left unfetched.
C11_Witness ==
    /\ lst.op = "listSecrets"
    /\ lst.pc = "failed"
    /\ lst.error = "VendorFailure"
    /\ lst.fetches = 2
    /\ Len(lst.acc) > 0
    /\ Len(pages) > 2

(***************************************************************************)
(* C20: a successful renewal replaces the account's entry whole            *)
(***************************************************************************)
\* p's exchange succeeds in this step: getCredentials returns a new lease.
RenewalSucceeds(p) ==
    /\ calls[p].op = "getCredentials"
    /\ calls[p].pc = "sts"
    /\ calls'[p].pc = "returned"

\* C20: after a successful renewal for account A the cache entry of A is
\* exactly the new lease (the credentials of this exchange with the expiry
\* computed from this exchange's reply, nothing of the previous entry), the
\* cache is keyed by account name and gains no key but A, and the entries of
\* the other accounts are unchanged.
C20_RenewalReplacesEntry ==
    [][\A p \in Procs :
          RenewalSucceeds(p) =>
             LET A == calls[p].account IN
             /\ A \in DOMAIN credentialsCache'
             /\ credentialsCache'[A] = calls'[p].result
             /\ credentialsCache'[A].credentials.accessKeyId = calls[p].key
             /\ credentialsCache'[A].expiresAt =
                   (IF credentialsCache'[A].credentials.expiration # NoDate
                    THEN credentialsCache'[A].credentials.expiration
                    ELSE now + FallbackLifetimeMs)
             /\ DOMAIN credentialsCache' = (DOMAIN credentialsCache) \cup {A}
             /\ \A k \in (DOMAIN credentialsCache) \ {A} :
                   credentialsCache'[k] = credentialsCache[k]]_vars

\* A renewal for prod has just returned, after the clock has moved, while
\* the cache also holds an entry of dev from an earlier exchange.
C20_Witness ==
    /\ calls["p1"].op = "getCredentials"
    /\ calls["p1"].pc = "returned"
    /\ ~calls["p1"].hit
    /\ calls["p1"].account = "prod"
    /\ now > 0
    /\ DOMAIN credentialsCache = {"prod", "dev"}
    /\ credentialsCache["prod"] = calls["p1"].result
    /\ credentialsCache["prod"].credentials.accessKeyId = 3
    /\ credentialsCache["dev"].credentials.accessKeyId = 2

(***************************************************************************)
(* C19: two concurrent calls for the same account                          *)
(***************************************************************************)
\* q's call for the same account overlaps p's: it awaits the service too, or
\* it has made an exchange of its own.
Overlaps(p, q) ==
    /\ q # p
    /\ calls[q].op = "getCredentials"
    /\ calls[q].account = calls[p].account
    /\ calls[q].exchanges = 1

\* Last write wins, and each of the two calls makes one exchange at most.
C19_LastWriteWins ==
    [][\A p, q \in Procs :
          RenewalSucceeds(p) /\ Overlaps(p, q) =>
             /\ credentialsCache'[calls[p].account] = calls'[p].result
             /\ calls'[p].result.credentials.accessKeyId = calls[p].key
             /\ calls'[p].exchanges + calls'[q].exchanges <= 2]_vars

\* C19: in every interleaving of two concurrent getCredentials calls for the
\* same account whose cache entry is missing or stale, each call that returns
\* returns a lease that expires more than 60 s after the return, each call
\* makes one exchange at most, and the cache holds the lease of the call that
\* completed last, credentials and expiresAt from the same exchange.
C19_ConcurrentCalls ==
    [][\A p, q \in Procs :
          RenewalSucceeds(p) /\ Overlaps(p, q) =>
             /\ calls'[p].result.expiresAt > now + SafetyMarginMs
             /\ credentialsCache'[calls[p].account] = calls'[p].result
             /\ calls'[p].result.credentials.accessKeyId = calls[p].key
             /\ calls'[p].exchanges + calls'[q].exchanges <= 2]_vars

(***************************************************************************)
(* Observations on a get-by-id                                             *)
(***************************************************************************)
\* The operation ran (its account is registered) against an existing entity
\* whose primary request was answered with a description.
Described(job) ==
    /\ job.pc = "answered"
    /\ job.account = "prod"
    /\ vendor.exists
    /\ Primary(vendor.service) # NoString => vendor.replies[Primary(vendor.service)] = "ok"

\* The secondary requests whose answer is the feature-absent error.
AbsentFeatures ==
    {c \in Range(Secondary(vendor.service)) : vendor.replies[c] = "absent"}

\* The fields a secondary request sets, and the entity's defaults for them.
FieldsUntouched(cmd, e) ==
    CASE cmd = "GetBucketEncryption" -> ~e.encryptionEnabled /\ e.encryptionType = NoString
      [] cmd = "GetBucketLifecycleConfiguration" -> e.lifecycleRules = << >>
      [] cmd = "GetPublicAccessBlock" -> ~e.publicAccessBlocked
      [] cmd = "GetBucketPolicyStatus" -> ~e.policyIsPublic
      [] OTHER -> ~e.tags.present

(***************************************************************************)
(* C14: a feature that is not configured is not an error                   *)
(***************************************************************************)
\* C14: when an optional secondary fetch of a get-by-id (bucket encryption,
\* lifecycle, public-access block, policy status, tags) fails with its
\* feature-not-configured error, the operation still returns the entity, the
\* field of that fetch keeps its default, every secondary fetch is still
\* sent, in order, and no error is reported.
C14_FeatureAbsentKeepsDefault ==
    \A q \in Slots : LET job == jobs[q] IN
    (Described(job) /\ AbsentFeatures # {}) =>
       /\ job.outcome = "entity"
       /\ job.error = NoString
       /\ job.status = 200
       /\ \A c \in AbsentFeatures : FieldsUntouched(c, job.entity)
       /\ job.sent = (IF Primary(vendor.service) = NoString THEN << >>
                      ELSE << Primary(vendor.service) >>)
                        \o Secondary(vendor.service)

\* getBucket answered while encryption is not configured and the requests
\* after it are answered: the later fields are set, encryption is not.
C14_Witness ==
    \E q \in Slots : LET job == jobs[q] IN
    /\ Described(job)
    /\ job.op = "s3"
    /\ vendor.replies["GetBucketEncryption"] = "absent"
    /\ vendor.replies["GetBucketLifecycleConfiguration"] = "ok"
    /\ vendor.replies["GetBucketPolicyStatus"] = "ok"
    /\ job.outcome = "entity"
    /\ ~job.entity.encryptionEnabled
    /\ job.entity.lifecycleRules # << >>
    /\ job.entity.policyIsPublic
    /\ Len(job.sent) = 7

(***************************************************************************)
(* C15: only a feature-absent error is swallowed                           *)
(***************************************************************************)
\* The secondary requests answered with an error that is not the
\* feature-absent one (a permission denial, a throttle, a transient failure).
DeniedFeatures ==
    {c \in Range(Secondary(vendor.service)) : vendor.replies[c] = "denied"}

\* C15: an enrichment error is swallowed only when it is the
\* feature-not-configured error of its fetch; when a secondary fetch fails
\* with any other error the get-by-id fails with an error, it does not return
\* an entity carrying the default of that field.
C15_OtherErrorsSurface ==
    \A q \in Slots : LET job == jobs[q] IN
    (Described(job) /\ DeniedFeatures # {}) =>
       /\ job.outcome = "throws"
       /\ job.error # NoString

(***************************************************************************)
(* C17: not found is undefined, and 404                                    *)
(***************************************************************************)
\* The vendor reports that the entity does not exist: its requests get the
\* not-found error, or the describing response describes nothing.
VendorSaysMissing ==
    \/ ~vendor.exists
    \/ /\ Primary(vendor.service) # NoString
       /\ vendor.replies[Primary(vendor.service)] = "empty"

\* C17: for every get-by-id (getBucket, getFunction, getTable,
\* getRepository) called for a registered account, the operation returns
\* undefined when the vendor reports that the entity does not exist, and the
\* route answers 404 exactly in that case.
C17_MissingIsUndefinedAnd404 ==
    \A q \in Slots : LET job == jobs[q] IN
    (job.pc = "answered" /\ job.account = "prod") =>
       /\ VendorSaysMissing => job.outcome = "undefined"
       /\ job.status = 404 <=> VendorSaysMissing

(***************************************************************************)
(* C18: no empty tag map                                                   *)
(***************************************************************************)
\* C18: the entity a get-by-id returns carries no empty tag map: its tags
\* are absent or hold at least one key, whatever tags the vendor answered.
C18_NoEmptyTagMap ==
    \A q \in Slots : LET job == jobs[q] IN
    job.outcome = "entity" =>
       \/ ~job.entity.tags.present
       \/ DOMAIN job.entity.tags.map # {}

(***************************************************************************)
(* Observations on a detail listing                                        *)
(***************************************************************************)
\* The batch sizes of n items: 5, ..., 5 and then n mod 5 when it is not 0.
ExpectedBatches(n) ==
    [k \in 1..((n + 4) \div 5) |-> IF k * 5 <= n THEN 5 ELSE n % 5]

ProducesEntity(name) == ItemResult(vendor, name).outcome = "entity"

NamesOf(entities) == [j \in 1..Len(entities) |-> entities[j].name]

(***************************************************************************)
(* C12: batches of five                                                    *)
(***************************************************************************)
\* C12: a detail listing of n items runs ceil(n/5) batches of sizes
\* 5, ..., 5, (n mod 5); the batches started so far are always the leading
\* ones of that sequence, and at most 5 per-item detail fetches are in flight
\* at any moment (each fetch awaits its requests one after the other, so at
\* most 5 vendor sub-requests are in flight).
C12_BatchesOfFive ==
    /\ Cardinality(det.running) <= 5
    /\ det.pc = "batch" => Cardinality(det.running) <= Len(det.batch)
    /\ det.pc \in {"batch", "failed", "returned"} =>
          /\ Len(det.batches) <= Len(ExpectedBatches(Len(det.names)))
          /\ det.batches = SubSeq(ExpectedBatches(Len(det.names)), 1, Len(det.batches))
    /\ det.pc = "returned" => det.batches = ExpectedBatches(Len(det.names))

\* A listing of 12 items has returned after batches of 5, 5 and 2.
C12_Witness ==
    /\ det.pc = "returned"
    /\ Len(det.names) = 12
    /\ det.batches = << 5, 5, 2 >>

(***************************************************************************)
(* C13: the result keeps the primary order                                 *)
(***************************************************************************)
\* C13: whatever the order in which the detail fetches of a batch complete,
\* the result of a detail listing is the primary listing's order restricted
\* to the items whose detail fetch produced an entity: items not found are
\* dropped, nothing is duplicated or reordered.
C13_PrimaryOrderKept ==
    det.pc = "returned" =>
       NamesOf(det.result) = SelectSeq(det.names, ProducesEntity)

\* A listing of tables has returned with more than one batch, an item
\* dropped, and a last batch whose items settled against the batch order.
C13_Witness ==
    /\ det.pc = "returned"
    /\ det.op = "dynamodb"
    /\ Len(det.names) > 5
    /\ Len(det.result) > 1
    /\ Len(det.result) < Len(det.names)
    /\ Len(det.order) > 1
    /\ det.order[1] > det.order[2]

(***************************************************************************)
(* C16: one item's failure and the rest of the listing                     *)
(***************************************************************************)
\* C16: in a detail listing the genuine failure of one item's detail fetch
\* neither aborts the listing nor discards the other items: once batches
\* run the listing does not fail, every batch is processed, and the items
\* whose fetch succeeded are returned.
C16_ItemFailureIsolated ==
    /\ det.batches # << >> => det.pc # "failed"
    /\ det.pc = "returned" =>
          /\ det.batches = ExpectedBatches(Len(det.names))
          /\ NamesOf(det.result) = SelectSeq(det.names, ProducesEntity)

(***************************************************************************)
(* C21: the session name of an exchange                                    *)
(***************************************************************************)
\* The caller holds an AssumeRole request: getCredentials awaits the service
\* with it, or getCredentialsProvider has handed it to the supplier.
HoldsRequest(p) == calls[p].request # NoRequest

\* C21: the session name of a role-assumption exchange is derived from the
\* account name and the timestamp: two requests built at the same timestamp
\* for two different accounts, by getCredentials or getCredentialsProvider,
\* never carry the same session name.
C21_SessionNamePerAccount ==
    \A p, q \in Procs :
       ( /\ HoldsRequest(p) /\ HoldsRequest(q)
         /\ calls[p].account # calls[q].account
         /\ calls[p].request.RoleSessionName[2] = calls[q].request.RoleSessionName[2] )
       => calls[p].request.RoleSessionName # calls[q].request.RoleSessionName

(***************************************************************************)
(* C22: the barrier between batches                                        *)
(***************************************************************************)
\* A batch after the first is started in this step.
NextBatchStarts ==
    /\ det.batches # << >>
    /\ Len(det'.batches) > Len(det.batches)

\* C22: in a detail listing no detail fetch of an item of batch k+1 starts
\* before every detail fetch of batch k has completed: the step that starts
\* a batch is the step in which the last running fetch of the batch before
\* it settles, and the fetches in flight all belong to the batch started
\* last.
C22_BatchBarrier ==
    /\ [](det.pc = "batch" =>
            /\ det.i = BatchSize * (Len(det.batches) - 1)
            /\ det.running \subseteq 1..Len(det.batch)
            /\ det.running \cap Range(det.order) = {})
    /\ [][NextBatchStarts =>
            /\ Cardinality(det.running) = 1
            /\ Len(det.order) = Len(det.batch) - 1
            /\ det'.running = 1..Len(det'.batch)
            /\ det'.order = << >>]_vars

\* The second batch has just been started, after the five fetches of the
\* first batch have settled and their entities have been pushed.
C22_Witness ==
    /\ det.pc = "batch"
    /\ Len(det.batches) = 2
    /\ det.order = << >>
    /\ Cardinality(det.running) > 1
    /\ Len(det.tables) > 0

(***************************************************************************)
(* C23: the chain of cursors and the end of the loop                       *)
(***************************************************************************)
\* The vendor's page that answers the k-th request of a listing: the pages
\* in turn, and round again when the last page points back to the first.
PageFetched(k) == ((k - 1) % Len(pages)) + 1

\* The vendor never returns an absent or empty cursor.
VendorNeverEnds == TruthyString(pages[Len(pages)].next)

\* The first request carries the absent cursor, each later request the
\* cursor of the page before it, and every page before the last one read
\* carried a non-empty cursor.
CursorChain ==
    lst.pc \in {"loop", "returned", "failed"} =>
       /\ Len(lst.sent) = lst.fetches
       /\ lst.fetches > 0 => lst.sent[1] = NoString
       /\ \A k \in 2..Len(lst.sent) :
             /\ lst.sent[k] = pages[PageFetched(k - 1)].next
             /\ TruthyString(pages[PageFetched(k - 1)].next)

\* The listing returned after a page whose cursor is absent or empty.
EndsAtLastPage == ~TruthyString(pages[PageFetched(lst.fetches)].next)

\* listImages left its loop by `break`: a maxResults that is a number other
\* than 0 was given and the page just read is the first to bring the images
\* held to maxResults or more (the first page, for a negative maxResults).
EndsAtCeiling ==
    /\ lst.op = "listImages"
    /\ lst.maxResults \notin {NoMaxResults, NaN, 0}
    /\ Len(lst.acc) >= lst.maxResults
    /\ \/ lst.fetches = 1
       \/ Len(lst.acc) - Len(pages[PageFetched(lst.fetches)].items) < lst.maxResults

\* A listing in its loop leaves it when the vendor's pages end.
LoopEnds == (lst.pc = "loop" /\ ~VendorNeverEnds) ~> (lst.pc # "loop")

\* C23: in every paginated listing the first vendor call carries an empty
\* cursor, each later call carries the cursor returned by the page before
\* it, and the loop ends at the first page whose cursor is absent or empty:
\* the listing terminates when the vendor's pages end and never returns
\* while the vendor keeps returning a non-empty cursor.
C23_LoopEndsAtEmptyCursor ==
    /\ []CursorChain
    /\ [](lst.pc = "returned" => EndsAtLastPage)
    /\ [](VendorNeverEnds => lst.pc # "returned")
    /\ LoopEnds

\* C23, amended: as above, except that listImages called with a maxResults
\* that is a number other than 0 also ends at the first page that brings
\* the images held to maxResults or more, whatever cursor that page carries.
C23_LoopEndsAtEmptyCursorOrCeiling ==
    /\ []CursorChain
    /\ [](lst.pc = "returned" => EndsAtLastPage \/ EndsAtCeiling)
    /\ [](VendorNeverEnds /\ lst.pc = "returned" => EndsAtCeiling)
    /\ LoopEnds

\* listClusters has returned after three requests chained by the cursors
\* tok2 and tok3, at a third page whose cursor is the empty string.
C23_Witness ==
    /\ lst.op = "listClusters"
    /\ lst.pc = "returned"
    /\ lst.sent = << NoString, "tok2", "tok3" >>
    /\ pages[3].next = ""
    /\ Len(lst.result) > 2

(***************************************************************************)
(* C24: the order of a listing's result                                    *)
(***************************************************************************)
\* A listing of every item has returned: a plain listing, or listImages
\* called without maxResults.
ListedAll ==
    /\ lst.pc = "returned"
    /\ lst.op \in PlainKinds \/ (lst.op = "listImages" /\ lst.maxResults = NoMaxResults)

\* C24: every listing, listImages without a ceiling included, returns its
\* items in the order the vendor returned them across pages; the collector
\* never re-sorts them.
C24_VendorOrderKept ==
    ListedAll =>
       /\ Len(lst.result) = VendorTotal
       /\ \A j \in 1..Len(lst.result) : ListedId(lst.op, lst.result[j]) = j

(***************************************************************************)
(* C25: no retry, and the error surfaced                                   *)
(***************************************************************************)
\* The requests of the get-by-id that the vendor rejected with an error that
\* is neither the not-found nor a feature-absent one.
RejectedCalls(job) ==
    {c \in Range(job.sent) : vendor.exists /\ vendor.replies[c] = "denied"}

TimesSent(job, c) == Cardinality({k \in 1..Len(job.sent) : job.sent[k] = c})

\* No request of a get-by-id is sent twice, whatever its answer.
C25_IssuedOnce ==
    \A q \in Slots : LET job == jobs[q] IN
    job.pc = "answered" => \A c \in Range(job.sent) : TimesSent(job, c) = 1

\* C25: the core performs no automatic retry: within one operation a vendor
\* call that fails is issued exactly once, and its error, when it is not a
\* classified not-found or feature-absent signal, is surfaced to the caller.
C25_NoRetryErrorSurfaced ==
    \A q \in Slots : LET job == jobs[q] IN
    (job.pc = "answered" /\ RejectedCalls(job) # {}) =>
       /\ \A c \in RejectedCalls(job) : TimesSent(job, c) = 1
       /\ job.outcome = "throws"
       /\ job.error = "AccessDenied"

(***************************************************************************)
(* C26: a failed operation is answered 500                                 *)
(***************************************************************************)
\* The provider operation of the request failed: unknown account or a vendor
\* failure.
OperationFailed(job) == job.pc \in {"answered", "settled"} /\ job.outcome = "throws"

\* C26: for every route, when the provider operation fails with an
\* unknown-account, assume-role or vendor failure, the request is eventually
\* answered with status 500; it is not left without a response and it is
\* answered neither 404 nor 200.
C26_FailureAnswered500 ==
    /\ \A q \in Slots : [](OperationFailed(jobs[q]) => jobs[q].status \notin {200, 404})
    /\ \A q \in Slots : [](OperationFailed(jobs[q]) => <>(jobs[q].status = 500))

(***************************************************************************)
(* C27: a parent that does not exist is not an empty list                  *)
(***************************************************************************)
\* An existing file system without any lifecycle policy.
EmptyFileSystem ==
    [service |-> "efs", exists |-> TRUE, reply |-> "ok", given |-> TRUE,
     policies |-> << >>]

\* C27: the outcome of getLifecycleConfiguration for a file system that the
\* vendor reports as nonexistent differs from its outcome for an existing
\* file system with an empty list of policies.
C27_MissingParentDistinguished ==
    \A q \in Slots : LET job == jobs[q] IN
    (job.op = "efs" /\ job.pc = "answered" /\ job.account = "prod" /\ ~vendor.exists) =>
       << job.outcome, job.list, job.error >> #
          << getLifecycleConfiguration(EmptyFileSystem, job.name).outcome,
             getLifecycleConfiguration(EmptyFileSystem, job.name).list,
             getLifecycleConfiguration(EmptyFileSystem, job.name).error >>

(***************************************************************************)
(* C28: the registry is fixed, the cache changes by renewals only          *)
(***************************************************************************)
\* p takes a step of getCredentialsProvider or of a provider operation.
SupplierOrProviderStep(p) ==
    /\ calls'[p] # calls[p]
    /\ calls'[p].op \in {"getCredentialsProvider", "providerOp"}

\* C28: across every sequence and interleaving of operations the account
\* registry stays what loadAccounts made it, and the credential cache
\* changes only in the step of a getCredentials call whose exchange
\* succeeds, and then only at that call's account; getCredentialsProvider
\* and the provider operations leave it unchanged.
C28_OnlyRenewalsChangeCache ==
    /\ [](accounts = loadAccounts(<< >>, SessionConfig))
    /\ [][ /\ accounts' = accounts
           /\ credentialsCache' # credentialsCache =>
                 \E p \in Procs :
                    /\ RenewalSucceeds(p)
                    /\ \A k \in (DOMAIN credentialsCache) \ {calls[p].account} :
                          /\ k \in DOMAIN credentialsCache'
                          /\ credentialsCache'[k] = credentialsCache[k]
           /\ \A p \in Procs :
                 SupplierOrProviderStep(p) => credentialsCache' = credentialsCache ]_vars

\* One caller has finished a provider operation and the other has built a
\* supplier, two exchanges or more have been made, and the cache holds the
\* one lease that a getCredentials call stored for prod.
C28_Witness ==
    /\ calls["p1"].op = "providerOp" /\ calls["p1"].pc = "returned"
    /\ calls["p1"].exchanges > 0
    /\ calls["p2"].op = "getCredentialsProvider" /\ calls["p2"].pc = "returned"
    /\ stsCalls > 1
    /\ DOMAIN credentialsCache = {"prod"}

(***************************************************************************)
(* C29: the value of a SecureString is masked                              *)
(***************************************************************************)
\* The value a parameter carries when it is passed on.
VendorValue(param) == IF param.Value = NoString THEN "" ELSE param.Value

\* The mapper, for every parameter the vendor may return.
MaskedByMapper ==
    \A t \in ParameterTypes, v \in ParameterValues, d \in BOOLEAN :
       LET param == [Name |-> "x", Type |-> t, Value |-> v]
       IN  IF t = "SecureString" /\ ~d
           THEN /\ mapParameter(param, d).value = "********"
                /\ \A w \in ParameterValues :
                      mapParameter([param EXCEPT !.Value = w], d) = mapParameter(param, d)
           ELSE mapParameter(param, d).value = VendorValue(param)

\* C29: a SecureString parameter returned with withDecryption false carries
\* the mask '********' whatever value the vendor supplied: the answer is the
\* same for every value the vendor could have supplied.  Parameters of
\* other types, and SecureString parameters with withDecryption true, carry
\* the vendor's value (the empty string when the vendor supplied none).
\* The mapper does so for every parameter, listed or fetched by name.
C29_SecureStringMasked ==
    /\ MaskedByMapper
    /\ \A q \in Slots : LET job == jobs[q] IN
       (job.op = "ssm" /\ job.outcome = "entity") =>
          IF vendor.parameter.Type = "SecureString" /\ ~job.decrypt
          THEN /\ job.entity.value = "********"
               /\ \A w \in ParameterValues :
                     getParameter([vendor EXCEPT !.parameter.Value = w],
                                  job.name, job.decrypt).entity = job.entity
          ELSE job.entity.value = VendorValue(vendor.parameter)

\* A SecureString whose value is hunter2 has been fetched without
\* decryption and answered 200 with the mask.
C29_Witness ==
    \E q \in Slots : LET job == jobs[q] IN
    /\ job.op = "ssm"
    /\ job.status = 200
    /\ ~job.decrypt
    /\ vendor.parameter.Type = "SecureString"
    /\ vendor.parameter.Value = "hunter2"
    /\ job.entity.value = "********"

(***************************************************************************)
(* C30: the response of GET /accounts                                      *)
(***************************************************************************)
\* The registries that differ from the loaded one in roleArn and externalId only.
SameButRoles ==
    { [i \in 1..Len(accounts) |->
         [accounts[i] EXCEPT !.roleArn = f[i][1], !.externalId = f[i][2]]] :
         f \in [1..Len(accounts) -> RoleArns \X ExternalIds] }

\* C30: the response of GET /accounts holds, for each registered account,
\* its name, accountId and region and nothing else; every registry that
\* differs from the loaded one only in roleArn and externalId gives the same
\* response; and the response lists exactly one entry for each distinct
\* account name of the configuration.
C30_AccountsResponse ==
    \A q \in Slots : LET job == jobs[q] IN
    (job.op = "accounts") =>
       /\ job.status = 200
       /\ Len(job.list) = Len(accounts)
       /\ \A i \in 1..Len(job.list) :
             /\ DOMAIN job.list[i] = {"name", "accountId", "region"}
             /\ job.list[i].name = accounts[i].name
             /\ job.list[i].accountId = accounts[i].accountId
             /\ job.list[i].region = accounts[i].region
       /\ \A other \in SameButRoles : AccountsResponse(other) = job.list
       /\ \A i, j \in 1..Len(job.list) :
             job.list[i].name = job.list[j].name => i = j
       /\ { job.list[i].name : i \in 1..Len(job.list) }
             = { vendor.config[i].name : i \in 1..Len(vendor.config) }

\* The accounts of a configuration that names prod twice, with different
\* roles, around dev have been answered: two entries.
C30_Witness ==
    \E q \in Slots : LET job == jobs[q] IN
    /\ job.op = "accounts"
    /\ Len(vendor.config) = 3
    /\ vendor.config[1].name = "prod"
    /\ vendor.config[2].name = "dev"
    /\ vendor.config[3].name = "prod"
    /\ vendor.config[1].roleArn # vendor.config[3].roleArn
    /\ Len(job.list) = 2

====
